---- MODULE Spec2Model ----
(***************************************************************************)
(* The in-browser mock data store of studybuddy (src/mocks/db.ts): one     *)
(* serialized document in localStorage, and the DB operations, each of     *)
(* which loads the document, mutates the loaded copy and saves it.         *)
(*                                                                         *)
(* Strings that the store converts (user names, course codes, times of    *)
(* day) are sequences of one-character strings, so that trim, toLowerCase, *)
(* toUpperCase, the username pattern and parseInt are computed.  Record    *)
(* identifiers (uuid) are pairs <<table, n>>, see uuid.                     *)
(* The createdAt timestamps (Date.now()) are not part of the model.        *)
(*                                                                         *)
(* storage is the value of the localStorage key.  probe records one call   *)
(* of an operation in the specifications that apply a single operation to  *)
(* many arguments; in Spec, where the operations are called in any order,  *)
(* it stays NoProbe.                                                       *)
(***************************************************************************)
EXTENDS Integers, Sequences, FiniteSets, TLC

VARIABLES storage, probe

vars == <<storage, probe>>

\* ------------------------------------------------------------------ bounds

\* Rows of the studySessions table.  The other tables are bounded by the
\* inputs: users by the usernames, courses by the codes, enrollments by both,
\* a user's availability by the slots.
MaxSessions == 1

\* Rows of the studySessions table where the operations on study sessions
\* are called without the course and availability operations.
MaxRequests == 2

\* ----------------------------------------------------------------- strings

Range(s) == {s[i] : i \in DOMAIN s}

Lowers ==
    <<"a","b","c","d","e","f","g","h","i","j","k","l","m",
      "n","o","p","q","r","s","t","u","v","w","x","y","z">>

Uppers ==
    <<"A","B","C","D","E","F","G","H","I","J","K","L","M",
      "N","O","P","Q","R","S","T","U","V","W","X","Y","Z">>

Digits == <<"0","1","2","3","4","5","6","7","8","9">>

WhiteSpace == {" ", "\t", "\n"}

LowerMap == [c \in Range(Uppers) |-> Lowers[CHOOSE i \in DOMAIN Uppers : Uppers[i] = c]]

UpperMap == [c \in Range(Lowers) |-> Uppers[CHOOSE i \in DOMAIN Lowers : Lowers[i] = c]]

\* String.prototype.toLowerCase
toLowerCase(s) == [i \in DOMAIN s |-> IF s[i] \in DOMAIN LowerMap THEN LowerMap[s[i]] ELSE s[i]]

\* String.prototype.toUpperCase
toUpperCase(s) == [i \in DOMAIN s |-> IF s[i] \in DOMAIN UpperMap THEN UpperMap[s[i]] ELSE s[i]]

\* String.prototype.trim: drops the white space at both ends.
trim(s) ==
    LET keep == {i \in DOMAIN s : s[i] \notin WhiteSpace}
    IN  IF keep = {} THEN <<>>
        ELSE LET lo == CHOOSE i \in keep : \A j \in keep : i <= j
                 hi == CHOOSE i \in keep : \A j \in keep : j <= i
             IN  SubSeq(s, lo, hi)

\* Index of the first TRUE of a sequence of booleans, 0 when there is none
\* (Array.prototype.find / some, over the tests of the elements).
FirstTrue(b) ==
    IF \E i \in DOMAIN b : b[i]
    THEN CHOOSE i \in DOMAIN b : b[i] /\ \A j \in 1..(i - 1) : ~b[j]
    ELSE 0

\* ------------------------------------------------------------------- types

\* currentUserId: null
Null == <<>>

\* uuid() as a generator that repeats itself.
uuid_repeating(table, rows) == <<table, 1>>

\* uuid(): an identifier that no row has.  Identifiers are only ever compared
\* for equality, and rows of users, courses and studySessions are only
\* removed all together (reset), so the n-th row of a table is given
\* <<table, n>>.
uuid(table, rows) == <<table, Len(rows) + 1>>

\* An identifier uuid() never returned.
NoSuchId == <<"none", 0>>

\* The result of an operation that did not throw.
NoError == "none"

\* The value of an operation that returns nothing (undefined).
Undefined == <<>>

\* NaN: what parseInt gives for a string with no leading digits, and what an
\* invalid Date gives for its time.  No number the model computes with is
\* negative.
NaN == 0 - 1

\* null where a number was written: JSON has no NaN.
NullNumber == 0 - 2

\* type Tables, all tables empty and nobody logged in
EmptyTables ==
    [users |-> <<>>, courses |-> <<>>, enrollments |-> <<>>,
     studySessions |-> <<>>, currentUserId |-> Null]

\* type StudySessionStatus
StudySessionStatus == {"pending", "confirmed", "declined"}

\* -------------------------------------------------------------- load, save

\* load() taking the tables out of a blob that does not parse.
load_recoversCorrupt(st) ==
    IF st.kind \in {"json", "corrupt"}
    THEN LET db == st.doc
             safe == IF DOMAIN db = DOMAIN EmptyTables THEN db
                     ELSE [f \in DOMAIN EmptyTables |->
                              IF f \in DOMAIN db THEN db[f] ELSE EmptyTables[f]]
             courseIds == {safe.courses[i].id : i \in DOMAIN safe.courses}
             hasCourse(e) == e.courseId \in courseIds
         IN  [safe EXCEPT !.enrollments = SelectSeq(safe.enrollments, hasCourse)]
    ELSE EmptyTables

\* load() without the guardrail.
load_keepsOrphans(st) ==
    IF st.kind = "json"
    THEN LET db == st.doc
         IN  IF DOMAIN db = DOMAIN EmptyTables THEN db
             ELSE [f \in DOMAIN EmptyTables |->
                      IF f \in DOMAIN db THEN db[f] ELSE EmptyTables[f]]
    ELSE EmptyTables

\* load() that reads the tables and not who is logged in.
load_withoutCurrentUser(st) ==
    IF st.kind = "json"
    THEN LET db == st.doc
             safe == [f \in DOMAIN EmptyTables |->
                         IF f \in DOMAIN db \ {"currentUserId"} THEN db[f] ELSE EmptyTables[f]]
             courseIds == {safe.courses[i].id : i \in DOMAIN safe.courses}
             hasCourse(e) == e.courseId \in courseIds
         IN  [safe EXCEPT !.enrollments = SelectSeq(safe.enrollments, hasCourse)]
    ELSE EmptyTables

\* load().  The blob is of kind "json" when it parses: doc is the object, the
\* tables it lacks get their defaults (db.users ?? [] and so on) and the
\* enrollments of courses it lacks are pruned.  When the key is absent ("{}" is parsed) or the blob does not
\* parse (catch) the tables are empty.
load(st) ==
    IF st.kind = "json"
    THEN LET db == st.doc
             safe == IF DOMAIN db = DOMAIN EmptyTables THEN db
                     ELSE [f \in DOMAIN EmptyTables |->
                              IF f \in DOMAIN db THEN db[f] ELSE EmptyTables[f]]
             courseIds == {safe.courses[i].id : i \in DOMAIN safe.courses}
             hasCourse(e) == e.courseId \in courseIds
         IN  [safe EXCEPT !.enrollments = SelectSeq(safe.enrollments, hasCourse)]
    ELSE EmptyTables

\* JSON.stringify(db), as the value JSON.parse gives for the text: strings,
\* finite numbers, null, arrays and objects as they are, NaN as null.  The
\* only number a caller passes into the document is a session's time.
stringify(db) ==
    [db EXCEPT !.studySessions =
        [i \in DOMAIN @ |-> IF @[i].time = NaN THEN [@[i] EXCEPT !.time = NullNumber]
                                                ELSE @[i]]]

\* save(db): the whole document replaces the stored blob.
save(db) == [kind |-> "json", doc |-> stringify(db)]

\* What an operation did: the documents it passed to save() in order, the
\* message of the Error it threw (NoError when it returned) and the value it
\* returned.
Saved(db, ret) == [saves |-> <<db>>, error |-> NoError, ret |-> ret]

Threw(msg) == [saves |-> <<>>, error |-> msg, ret |-> Undefined]

Returned(ret) == [saves |-> <<>>, error |-> NoError, ret |-> ret]

\* assertLoggedIn(db) returns (TRUE) or throws "Not logged in" (FALSE).
assertLoggedIn(db) == db.currentUserId # Null

NotLoggedIn == Threw("Not logged in")

\* normalize(code) without toUpperCase.
normalize_trimOnly(code) == trim(code)

\* normalize(code)
normalize(code) == toUpperCase(trim(code))

\* getOrCreateCourseIn looking for the code as it was given.
getOrCreateCourseIn_rawLookup(db, code) ==
    LET norm == normalize(code)
        c == FirstTrue([i \in DOMAIN db.courses |-> db.courses[i].code = code])
    IN  IF c = 0
        THEN LET course == [id |-> uuid("course", db.courses), code |-> norm]
             IN  [db |-> [db EXCEPT !.courses = Append(@, course)],
                  course |-> course, created |-> TRUE]
        ELSE [db |-> db, course |-> db.courses[c], created |-> FALSE]

\* getOrCreateCourseIn(db, code): the course with the normalized code, pushed
\* onto db.courses when there is none.
getOrCreateCourseIn(db, code) ==
    LET norm == normalize(code)
        c == FirstTrue([i \in DOMAIN db.courses |-> db.courses[i].code = norm])
    IN  IF c = 0
        THEN LET course == [id |-> uuid("course", db.courses), code |-> norm]
             IN  [db |-> [db EXCEPT !.courses = Append(@, course)],
                  course |-> course, created |-> TRUE]
        ELSE [db |-> db, course |-> db.courses[c], created |-> FALSE]

\* ------------------------------------------------------------ DB: identity

\* DB.reset() that clears the tables and leaves the current user.
reset_keepsCurrentUser(st) ==
    Saved([EmptyTables EXCEPT !.currentUserId = load(st).currentUserId], Undefined)

\* DB.reset()
reset(st) == Saved(EmptyTables, Undefined)

\* DB.dump() that writes the document it loaded back.
dump_writesBack(st) == Saved(load(st), load(st))

\* DB.dump()
dump(st) == Returned(load(st))

\* DB.me(): the current user, as a sequence of zero or one users.
me(st) ==
    LET db == load(st)
        u == FirstTrue([i \in DOMAIN db.users |-> db.users[i].id = db.currentUserId])
    IN  Returned(IF u = 0 THEN <<>> ELSE <<db.users[u]>>)

\* DB.login comparing the usernames as they are spelled.
login_caseSensitive(st, username) ==
    LET db == load(st)
        u == FirstTrue([i \in DOMAIN db.users |-> db.users[i].username = username])
    IN  IF u = 0 THEN Threw("User not found")
        ELSE Saved([db EXCEPT !.currentUserId = db.users[u].id], db.users[u])

\* DB.login(username)
login(st, username) ==
    LET db == load(st)
        u == FirstTrue([i \in DOMAIN db.users |->
                 toLowerCase(db.users[i].username) = toLowerCase(username)])
    IN  IF u = 0 THEN Threw("User not found")
        ELSE Saved([db EXCEPT !.currentUserId = db.users[u].id], db.users[u])

\* The quantifier {3,20} of the username pattern.
MinUsernameLength == 3

MaxUsernameLength == 20

\* The username pattern with the quantifier {3,}.
validUsername_noMaximum(username) ==
    LET inClass(c) == c \in Range(Lowers) \cup Range(Digits) \cup {"_", ".", "-"}
    IN  /\ Len(username) >= MinUsernameLength
        /\ \A i \in DOMAIN username :
              inClass(username[i]) \/ inClass(toLowerCase(<<username[i]>>)[1])

\* The pattern /^[a-z0-9_.-]{3,20}$/i of DB.createUser: the class is matched
\* ignoring case.
validUsername(username) ==
    LET inClass(c) == c \in Range(Lowers) \cup Range(Digits) \cup {"_", ".", "-"}
    IN  /\ Len(username) >= MinUsernameLength
        /\ Len(username) <= MaxUsernameLength
        /\ \A i \in DOMAIN username :
              inClass(username[i]) \/ inClass(toLowerCase(<<username[i]>>)[1])

\* DB.createUser looking for the username as it is spelled.
createUser_caseSensitive(st, name, username) ==
    LET db == load(st)
    IN  IF ~validUsername(username) THEN Threw("Invalid username format")
        ELSE IF \E i \in DOMAIN db.users : db.users[i].username = username
        THEN Threw("Username already in use")
        ELSE LET user == [id |-> uuid("user", db.users), name |-> trim(name),
                          username |-> trim(username), availability |-> <<>>]
             IN  Saved([db EXCEPT !.users = Append(@, user), !.currentUserId = user.id],
                       user)

\* DB.createUser without the assignment to db.currentUserId.
createUser_keepsCurrent(st, name, username) ==
    LET db == load(st)
    IN  IF ~validUsername(username) THEN Threw("Invalid username format")
        ELSE IF \E i \in DOMAIN db.users :
                   toLowerCase(db.users[i].username) = toLowerCase(username)
        THEN Threw("Username already in use")
        ELSE LET user == [id |-> uuid("user", db.users), name |-> trim(name),
                          username |-> trim(username), availability |-> <<>>]
             IN  Saved([db EXCEPT !.users = Append(@, user)], user)

\* DB.createUser(name, username)
createUser(st, name, username) ==
    LET db == load(st)
    IN  IF ~validUsername(username) THEN Threw("Invalid username format")
        ELSE IF \E i \in DOMAIN db.users :
                   toLowerCase(db.users[i].username) = toLowerCase(username)
        THEN Threw("Username already in use")
        ELSE LET user == [id |-> uuid("user", db.users), name |-> trim(name),
                          username |-> trim(username), availability |-> <<>>]
             IN  Saved([db EXCEPT !.users = Append(@, user), !.currentUserId = user.id],
                       user)

\* DB.logout without its save().
logout_notSaved(st) == Returned(Undefined)

\* DB.logout()
logout(st) == Saved([load(st) EXCEPT !.currentUserId = Null], Undefined)

\* DB.getUserByUsername(username), as a sequence of zero or one users.
getUserByUsername(st, username) ==
    LET db == load(st)
        u == FirstTrue([i \in DOMAIN db.users |->
                 toLowerCase(db.users[i].username) = toLowerCase(username)])
    IN  Returned(IF u = 0 THEN <<>> ELSE <<db.users[u]>>)

\* -------------------------------------------------------- DB: availability

\* DB.addMeetingTime taking a slot of the same day and start for a duplicate.
addMeetingTime_dayAndStartOnly(st, day, startTime, endTime) ==
    LET db == load(st)
        meId == db.currentUserId
        u == FirstTrue([i \in DOMAIN db.users |-> db.users[i].id = meId])
        newAvailability == [day |-> day, startTime |-> startTime, endTime |-> endTime]
    IN  IF ~assertLoggedIn(db) THEN NotLoggedIn
        ELSE IF u = 0 THEN Returned(Undefined)
        ELSE LET exists == \E i \in DOMAIN db.users[u].availability :
                               /\ db.users[u].availability[i].day = day
                               /\ db.users[u].availability[i].startTime = startTime
             IN  Saved(IF exists THEN db
                       ELSE [db EXCEPT !.users[u].availability = Append(@, newAvailability)],
                       Undefined)

\* DB.addMeetingTime that takes the first user of the table for the current
\* user.
addMeetingTime_firstUser(st, day, startTime, endTime) ==
    LET db == load(st)
        u == IF db.users = <<>> THEN 0 ELSE 1
        newAvailability == [day |-> day, startTime |-> startTime, endTime |-> endTime]
    IN  IF ~assertLoggedIn(db) THEN NotLoggedIn
        ELSE IF u = 0 THEN Returned(Undefined)
        ELSE LET exists == \E i \in DOMAIN db.users[u].availability :
                               db.users[u].availability[i] = newAvailability
             IN  Saved(IF exists THEN db
                       ELSE [db EXCEPT !.users[u].availability = Append(@, newAvailability)],
                       Undefined)

\* DB.addMeetingTime(day, startTime, endTime)
addMeetingTime(st, day, startTime, endTime) ==
    LET db == load(st)
        meId == db.currentUserId
        u == FirstTrue([i \in DOMAIN db.users |-> db.users[i].id = meId])
        newAvailability == [day |-> day, startTime |-> startTime, endTime |-> endTime]
    IN  IF ~assertLoggedIn(db) THEN NotLoggedIn
        ELSE IF u = 0 THEN Returned(Undefined)
        ELSE LET exists == \E i \in DOMAIN db.users[u].availability :
                               db.users[u].availability[i] = newAvailability
             IN  Saved(IF exists THEN db
                       ELSE [db EXCEPT !.users[u].availability = Append(@, newAvailability)],
                       Undefined)

\* DB.removeMeetingTime dropping every slot of the day.
removeMeetingTime_wholeDay(st, availabilityToRemove) ==
    LET db == load(st)
        meId == db.currentUserId
        u == FirstTrue([i \in DOMAIN db.users |-> db.users[i].id = meId])
        keep(a) == a.day # availabilityToRemove.day
    IN  IF ~assertLoggedIn(db) THEN NotLoggedIn
        ELSE IF u = 0 THEN Returned(Undefined)
        ELSE Saved([db EXCEPT !.users[u].availability = SelectSeq(@, keep)], Undefined)

\* DB.removeMeetingTime(availabilityToRemove)
removeMeetingTime(st, availabilityToRemove) ==
    LET db == load(st)
        meId == db.currentUserId
        u == FirstTrue([i \in DOMAIN db.users |-> db.users[i].id = meId])
        keep(a) == \/ a.day # availabilityToRemove.day
                   \/ a.startTime # availabilityToRemove.startTime
                   \/ a.endTime # availabilityToRemove.endTime
    IN  IF ~assertLoggedIn(db) THEN NotLoggedIn
        ELSE IF u = 0 THEN Returned(Undefined)
        ELSE Saved([db EXCEPT !.users[u].availability = SelectSeq(@, keep)], Undefined)

\* ------------------------------------------------- DB: courses, enrollments

\* DB.getOrCreateCourse(code)
getOrCreateCourse(st, code) ==
    LET g == getOrCreateCourseIn(load(st), code)
    IN  Saved(g.db, g.course)

\* DB.addEnrollment getting the course through DB.getOrCreateCourse, which
\* saves, before it looks at the current user.
addEnrollment_courseSavedFirst(st, code) ==
    LET db == load(st)
        meId == db.currentUserId
        g == getOrCreateCourseIn(db, code)
        dup == \E i \in DOMAIN g.db.enrollments :
                  /\ g.db.enrollments[i].studentId = meId
                  /\ g.db.enrollments[i].courseId = g.course.id
        enrolled == [g.db EXCEPT !.enrollments =
                        Append(@, [studentId |-> meId, courseId |-> g.course.id])]
    IN  IF ~assertLoggedIn(db)
        THEN [saves |-> <<g.db>>, error |-> "Not logged in", ret |-> Undefined]
        ELSE IF dup
        THEN [saves |-> <<g.db>>, error |-> "Course already added", ret |-> Undefined]
        ELSE [saves |-> <<g.db, enrolled>>, error |-> NoError, ret |-> Undefined]

\* DB.addEnrollment without the duplicate test.
addEnrollment_noDuplicateCheck(st, code) ==
    LET db == load(st)
        meId == db.currentUserId
        g == getOrCreateCourseIn(db, code)
    IN  IF ~assertLoggedIn(db) THEN NotLoggedIn
        ELSE Saved([g.db EXCEPT !.enrollments =
                        Append(@, [studentId |-> meId, courseId |-> g.course.id])],
                   Undefined)

\* DB.addEnrollment getting the course through DB.getOrCreateCourse, which
\* loads and saves a document of its own, and then saving the document it
\* loaded before.
addEnrollment_staleSnapshot(st, code) ==
    LET db == load(st)
        meId == db.currentUserId
        g == getOrCreateCourseIn(db, code)
        dup == \E i \in DOMAIN db.enrollments :
                  /\ db.enrollments[i].studentId = meId
                  /\ db.enrollments[i].courseId = g.course.id
        enrolled == [db EXCEPT !.enrollments =
                        Append(@, [studentId |-> meId, courseId |-> g.course.id])]
    IN  IF ~assertLoggedIn(db) THEN NotLoggedIn
        ELSE IF dup THEN Threw("Course already added")
        ELSE [saves |-> (IF g.created THEN <<g.db>> ELSE <<>>) \o <<enrolled>>,
              error |-> NoError, ret |-> Undefined]

\* DB.addEnrollment(code)
addEnrollment(st, code) ==
    LET db == load(st)
        meId == db.currentUserId
        g == getOrCreateCourseIn(db, code)
        dup == \E i \in DOMAIN g.db.enrollments :
                  /\ g.db.enrollments[i].studentId = meId
                  /\ g.db.enrollments[i].courseId = g.course.id
    IN  IF ~assertLoggedIn(db) THEN NotLoggedIn
        ELSE IF dup THEN Threw("Course already added")
        ELSE Saved([g.db EXCEPT !.enrollments =
                        Append(@, [studentId |-> meId, courseId |-> g.course.id])],
                   Undefined)

\* DB.removeEnrollment dropping every student's row for the course.
removeEnrollment_wholeCourse(st, code) ==
    LET db == load(st)
        meId == db.currentUserId
        c == FirstTrue([i \in DOMAIN db.courses |-> db.courses[i].code = normalize(code)])
        keep(e) == e.courseId # db.courses[c].id
    IN  IF ~assertLoggedIn(db) THEN NotLoggedIn
        ELSE IF c = 0 THEN Returned(Undefined)
        ELSE Saved([db EXCEPT !.enrollments = SelectSeq(@, keep)], Undefined)

\* DB.removeEnrollment that drops a course nobody is enrolled in any more.
removeEnrollment_collectsCourse(st, code) ==
    LET db == load(st)
        meId == db.currentUserId
        c == FirstTrue([i \in DOMAIN db.courses |-> db.courses[i].code = normalize(code)])
        keep(e) == ~(e.studentId = meId /\ e.courseId = db.courses[c].id)
        left == SelectSeq(db.enrollments, keep)
        inUse(course) == \E i \in DOMAIN left : left[i].courseId = course.id
    IN  IF ~assertLoggedIn(db) THEN NotLoggedIn
        ELSE IF c = 0 THEN Returned(Undefined)
        ELSE Saved([db EXCEPT !.enrollments = left, !.courses = SelectSeq(@, inUse)],
                   Undefined)

\* DB.removeEnrollment(code)
removeEnrollment(st, code) ==
    LET db == load(st)
        meId == db.currentUserId
        c == FirstTrue([i \in DOMAIN db.courses |-> db.courses[i].code = normalize(code)])
        keep(e) == ~(e.studentId = meId /\ e.courseId = db.courses[c].id)
    IN  IF ~assertLoggedIn(db) THEN NotLoggedIn
        ELSE IF c = 0 THEN Returned(Undefined)
        ELSE Saved([db EXCEPT !.enrollments = SelectSeq(@, keep)], Undefined)

\* The courses of the enrollment rows of `studentId`, row by row.
coursesOf_enrollmentOrder(db, studentId) ==
    LET mine(e) == e.studentId = studentId
        rows == SelectSeq(db.enrollments, mine)
    IN  [i \in DOMAIN rows |->
            db.courses[CHOOSE c \in DOMAIN db.courses : db.courses[c].id = rows[i].courseId]]

\* The courses of db that `studentId` has an enrollment row for.
coursesOf(db, studentId) ==
    LET courseIds == {db.enrollments[i].courseId :
                         i \in {j \in DOMAIN db.enrollments :
                                   db.enrollments[j].studentId = studentId}}
        mine(c) == c.id \in courseIds
    IN  SelectSeq(db.courses, mine)

\* DB.listMyCourses()
listMyCourses(st) ==
    LET db == load(st)
    IN  Returned(IF db.currentUserId = Null THEN <<>> ELSE coursesOf(db, db.currentUserId))

\* DB.listMyCoursesByStudentId(studentId)
listMyCoursesByStudentId(st, studentId) == Returned(coursesOf(load(st), studentId))

\* DB.classmates without the test u.id !== me.
classmates_includesMe(st, courseCode) ==
    LET db == load(st)
        c == FirstTrue([i \in DOMAIN db.courses |->
                 db.courses[i].code = toUpperCase(trim(courseCode))])
        ids == {db.enrollments[i].studentId :
                   i \in {j \in DOMAIN db.enrollments :
                             db.enrollments[j].courseId = db.courses[c].id}}
        mate(u) == u.id \in ids
    IN  Returned(IF c = 0 THEN <<>> ELSE SelectSeq(db.users, mate))

\* DB.classmates(courseCode)
classmates(st, courseCode) ==
    LET db == load(st)
        c == FirstTrue([i \in DOMAIN db.courses |->
                 db.courses[i].code = toUpperCase(trim(courseCode))])
        ids == {db.enrollments[i].studentId :
                   i \in {j \in DOMAIN db.enrollments :
                             db.enrollments[j].courseId = db.courses[c].id}}
        mate(u) == u.id \in ids /\ u.id # db.currentUserId
    IN  Returned(IF c = 0 THEN <<>> ELSE SelectSeq(db.users, mate))

\* DB.getCourseByCode(code), as a sequence of zero or one courses.
getCourseByCode(st, code) ==
    LET db == load(st)
        c == FirstTrue([i \in DOMAIN db.courses |-> db.courses[i].code = normalize(code)])
    IN  Returned(IF c = 0 THEN <<>> ELSE <<db.courses[c]>>)

\* DB.listMutualCourses returning the other student's courses unfiltered.
listMutualCourses_theirCourses(st, otherStudentId) ==
    LET db == load(st)
        theirCourses == listMyCoursesByStudentId(st, otherStudentId).ret
    IN  IF ~assertLoggedIn(db) THEN NotLoggedIn
        ELSE Returned(theirCourses)

\* DB.listMutualCourses(otherStudentId)
listMutualCourses(st, otherStudentId) ==
    LET db == load(st)
        myCourses == listMyCoursesByStudentId(st, db.currentUserId).ret
        theirCourses == listMyCoursesByStudentId(st, otherStudentId).ret
        myCourseIds == {myCourses[i].id : i \in DOMAIN myCourses}
        mutual(c) == c.id \in myCourseIds
    IN  IF ~assertLoggedIn(db) THEN NotLoggedIn
        ELSE Returned(SelectSeq(theirCourses, mutual))

\* --------------------------------------------------------- DB: study sessions

\* 'Unknown Course'
UnknownCourse == <<"U","n","k","n","o","w","n"," ","C","o","u","r","s","e">>

\* new Date(time).toLocaleString(...): the instant, in the named format.
toLocaleString(time, format) == [instant |-> time, format |-> format]

\* The DetailedStudySession of a session: its course's code, its time as a
\* string, and the requester and the requestee that are in the users table.
detailed(db, session, format) ==
    LET c == FirstTrue([i \in DOMAIN db.courses |-> db.courses[i].id = session.courseId])
        isRequester(u) == u.id = session.requesterId
        isRequestee(u) == u.id = session.requesteeId
        requester == SelectSeq(db.users, isRequester)
        requestee == SelectSeq(db.users, isRequestee)
        participants == (IF requester = <<>> THEN <<>> ELSE <<requester[1]>>)
                        \o (IF requestee = <<>> THEN <<>> ELSE <<requestee[1]>>)
    IN  [id |-> session.id,
         courseCode |-> IF c = 0 THEN UnknownCourse ELSE db.courses[c].code,
         time |-> toLocaleString(session.time, format),
         participants |-> [i \in DOMAIN participants |->
                              [id |-> participants[i].id, name |-> participants[i].name,
                               username |-> participants[i].username]]]

\* DB.createStudySessionRequest without the test requesterId === requesteeId.
createStudySessionRequest_noSelfCheck(st, requesteeId, courseId, time) ==
    LET db == load(st)
        requesterId == db.currentUserId
        newSession == [id |-> uuid("session", db.studySessions), requesterId |-> requesterId, requesteeId |-> requesteeId,
                       courseId |-> courseId, time |-> time, status |-> "pending"]
    IN  IF ~assertLoggedIn(db) THEN NotLoggedIn
        ELSE Saved([db EXCEPT !.studySessions = Append(@, newSession)], newSession)

\* DB.createStudySessionRequest with the two participants exchanged.
createStudySessionRequest_swapsParticipants(st, requesteeId, courseId, time) ==
    LET db == load(st)
        requesterId == db.currentUserId
        newSession == [id |-> uuid("session", db.studySessions), requesterId |-> requesteeId, requesteeId |-> requesterId,
                       courseId |-> courseId, time |-> time, status |-> "pending"]
    IN  IF ~assertLoggedIn(db) THEN NotLoggedIn
        ELSE IF requesterId = requesteeId
        THEN Threw("You cannot send a study request to yourself.")
        ELSE Saved([db EXCEPT !.studySessions = Append(@, newSession)], newSession)

\* DB.createStudySessionRequest(requesteeId, courseId, time)
createStudySessionRequest(st, requesteeId, courseId, time) ==
    LET db == load(st)
        requesterId == db.currentUserId
        newSession == [id |-> uuid("session", db.studySessions), requesterId |-> requesterId, requesteeId |-> requesteeId,
                       courseId |-> courseId, time |-> time, status |-> "pending"]
    IN  IF ~assertLoggedIn(db) THEN NotLoggedIn
        ELSE IF requesterId = requesteeId
        THEN Threw("You cannot send a study request to yourself.")
        ELSE Saved([db EXCEPT !.studySessions = Append(@, newSession)], newSession)

\* DB.listPendingRequestsForMe without the test of the status.
listPendingRequestsForMe_anyStatus(st) ==
    LET db == load(st)
        meId == db.currentUserId
        mine(s) == s.requesteeId = meId
        requests == SelectSeq(db.studySessions, mine)
    IN  IF ~assertLoggedIn(db) THEN NotLoggedIn
        ELSE Returned([i \in DOMAIN requests |-> detailed(db, requests[i], "default")])

\* DB.listPendingRequestsForMe()
listPendingRequestsForMe(st) ==
    LET db == load(st)
        meId == db.currentUserId
        mine(s) == s.requesteeId = meId /\ s.status = "pending"
        requests == SelectSeq(db.studySessions, mine)
    IN  IF ~assertLoggedIn(db) THEN NotLoggedIn
        ELSE Returned([i \in DOMAIN requests |-> detailed(db, requests[i], "default")])

\* DB.updateStudySessionStatus letting either participant update.
updateStudySessionStatus_anyParticipant(st, sessionId, newStatus) ==
    LET db == load(st)
        meId == db.currentUserId
        s == FirstTrue([i \in DOMAIN db.studySessions |-> db.studySessions[i].id = sessionId])
    IN  IF ~assertLoggedIn(db) THEN NotLoggedIn
        ELSE IF s = 0 THEN Threw("Study session not found.")
        ELSE IF db.studySessions[s].requesteeId # meId /\ db.studySessions[s].requesterId # meId
        THEN Threw("You are not authorized to update this session.")
        ELSE LET updated == [db EXCEPT !.studySessions[s].status = newStatus]
             IN  Saved(updated, updated.studySessions[s])

\* DB.updateStudySessionStatus looking the session up before the login check.
updateStudySessionStatus_lookupFirst(st, sessionId, newStatus) ==
    LET db == load(st)
        meId == db.currentUserId
        s == FirstTrue([i \in DOMAIN db.studySessions |-> db.studySessions[i].id = sessionId])
    IN  IF s = 0 THEN Threw("Study session not found.")
        ELSE IF ~assertLoggedIn(db) THEN NotLoggedIn
        ELSE IF db.studySessions[s].requesteeId # meId
        THEN Threw("You are not authorized to update this session.")
        ELSE LET updated == [db EXCEPT !.studySessions[s].status = newStatus]
             IN  Saved(updated, updated.studySessions[s])

\* DB.updateStudySessionStatus returning nothing for a session it does not
\* find.
updateStudySessionStatus_ignoresMissing(st, sessionId, newStatus) ==
    LET db == load(st)
        meId == db.currentUserId
        s == FirstTrue([i \in DOMAIN db.studySessions |-> db.studySessions[i].id = sessionId])
    IN  IF ~assertLoggedIn(db) THEN NotLoggedIn
        ELSE IF s = 0 THEN Returned(Undefined)
        ELSE IF db.studySessions[s].requesteeId # meId
        THEN Threw("You are not authorized to update this session.")
        ELSE LET updated == [db EXCEPT !.studySessions[s].status = newStatus]
             IN  Saved(updated, updated.studySessions[s])

\* DB.updateStudySessionStatus without the test of the requestee.
updateStudySessionStatus_noAuthorization(st, sessionId, newStatus) ==
    LET db == load(st)
        s == FirstTrue([i \in DOMAIN db.studySessions |-> db.studySessions[i].id = sessionId])
    IN  IF ~assertLoggedIn(db) THEN NotLoggedIn
        ELSE IF s = 0 THEN Threw("Study session not found.")
        ELSE LET updated == [db EXCEPT !.studySessions[s].status = newStatus]
             IN  Saved(updated, updated.studySessions[s])

\* DB.updateStudySessionStatus(sessionId, newStatus)
updateStudySessionStatus(st, sessionId, newStatus) ==
    LET db == load(st)
        meId == db.currentUserId
        s == FirstTrue([i \in DOMAIN db.studySessions |-> db.studySessions[i].id = sessionId])
    IN  IF ~assertLoggedIn(db) THEN NotLoggedIn
        ELSE IF s = 0 THEN Threw("Study session not found.")
        ELSE IF db.studySessions[s].requesteeId # meId
        THEN Threw("You are not authorized to update this session.")
        ELSE LET updated == [db EXCEPT !.studySessions[s].status = newStatus]
             IN  Saved(updated, updated.studySessions[s])

\* DB.listMyStudySessions listing only the sessions the user requested.
listMyStudySessions_requesterOnly(st) ==
    LET db == load(st)
        meId == db.currentUserId
        mine(s) == s.status = "confirmed" /\ s.requesterId = meId
        mySessions == SelectSeq(db.studySessions, mine)
    IN  Returned(IF meId = Null THEN <<>>
                 ELSE [i \in DOMAIN mySessions |-> detailed(db, mySessions[i], "full")])

\* DB.listMyStudySessions listing every confirmed session.
listMyStudySessions_allConfirmed(st) ==
    LET db == load(st)
        meId == db.currentUserId
        mine(s) == s.status = "confirmed"
        mySessions == SelectSeq(db.studySessions, mine)
    IN  Returned(IF meId = Null THEN <<>>
                 ELSE [i \in DOMAIN mySessions |-> detailed(db, mySessions[i], "full")])

\* DB.listMyStudySessions()
listMyStudySessions(st) ==
    LET db == load(st)
        meId == db.currentUserId
        mine(s) == s.status = "confirmed" /\ (s.requesterId = meId \/ s.requesteeId = meId)
        mySessions == SelectSeq(db.studySessions, mine)
    IN  Returned(IF meId = Null THEN <<>>
                 ELSE [i \in DOMAIN mySessions |-> detailed(db, mySessions[i], "full")])

\* ------------------------------------------------------ DB: buddy suggestion

\* String.prototype.replace(':', ''): the string without its first colon.
replaceColon(s) ==
    LET c == FirstTrue([i \in DOMAIN s |-> s[i] = ":"])
    IN  IF c = 0 THEN s ELSE SubSeq(s, 1, c - 1) \o SubSeq(s, c + 1, Len(s))

\* parseInt(s), for strings without a sign or a radix prefix: the decimal
\* value of the digits that follow the leading white space, up to the first
\* character that is no digit; NaN when there are none.
parseInt(s) ==
    LET start == FirstTrue([i \in DOMAIN s |-> s[i] \notin WhiteSpace])
        stop == FirstTrue([i \in DOMAIN s |-> i >= start /\ s[i] \notin Range(Digits)])
        last == IF stop = 0 THEN Len(s) ELSE stop - 1
        digit(c) == (CHOOSE i \in DOMAIN Digits : Digits[i] = c) - 1
        value[i \in (start - 1)..last] ==
            IF i < start THEN 0 ELSE 10 * value[i - 1] + digit(s[i])
    IN  IF start = 0 \/ last < start THEN NaN ELSE value[last]

\* < as <=.
LessThan_orEqual(a, b) == a # NaN /\ b # NaN /\ a <= b

\* Math.max, Math.min and < on numbers one of which may be NaN.
MathMax(a, b) == IF a = NaN \/ b = NaN THEN NaN ELSE IF a >= b THEN a ELSE b

MathMin(a, b) == IF a = NaN \/ b = NaN THEN NaN ELSE IF a <= b THEN a ELSE b

LessThan(a, b) == a # NaN /\ b # NaN /\ a < b

\* The overlap test as: their slot starts within my slot.
slotsOverlap_startsWithin(mySlot, theirSlot) ==
    /\ mySlot.day = theirSlot.day
    /\ LET myStart == parseInt(replaceColon(mySlot.startTime))
           myEnd == parseInt(replaceColon(mySlot.endTime))
           theirStart == parseInt(replaceColon(theirSlot.startTime))
       IN  ~LessThan(theirStart, myStart) /\ LessThan(theirStart, myEnd)

\* The overlap test as: each slot starts before the other ends.
slotsOverlap_pairwise(mySlot, theirSlot) ==
    /\ mySlot.day = theirSlot.day
    /\ LET myStart == parseInt(replaceColon(mySlot.startTime))
           myEnd == parseInt(replaceColon(mySlot.endTime))
           theirStart == parseInt(replaceColon(theirSlot.startTime))
           theirEnd == parseInt(replaceColon(theirSlot.endTime))
       IN  LessThan(myStart, theirEnd) /\ LessThan(theirStart, myEnd)

\* The overlap test of DB.suggestStudyBuddies on two slots.
slotsOverlap(mySlot, theirSlot) ==
    /\ mySlot.day = theirSlot.day
    /\ LET myStart == parseInt(replaceColon(mySlot.startTime))
           myEnd == parseInt(replaceColon(mySlot.endTime))
           theirStart == parseInt(replaceColon(theirSlot.startTime))
           theirEnd == parseInt(replaceColon(theirSlot.endTime))
       IN  LessThan(MathMax(myStart, theirStart), MathMin(myEnd, theirEnd))

\* DB.suggestStudyBuddies without the test of the availability.
suggestStudyBuddies_courseOnly(st) ==
    LET db == load(st)
        meId == db.currentUserId
        m == FirstTrue([i \in DOMAIN db.users |-> db.users[i].id = meId])
        mine == listMyCourses(st).ret
        myCourses == {mine[i].id : i \in DOMAIN mine}
        buddy(user) ==
            LET theirs == listMyCoursesByStudentId(st, user.id).ret
                theirCourses == {theirs[i].id : i \in DOMAIN theirs}
                mutualCourses == myCourses \cap theirCourses
            IN  /\ user.id # meId
                /\ mutualCourses # {}
    IN  IF ~assertLoggedIn(db) THEN NotLoggedIn
        ELSE IF m = 0 THEN Returned(<<>>)
        ELSE Returned(SelectSeq(db.users, buddy))

\* DB.suggestStudyBuddies()
suggestStudyBuddies(st) ==
    LET db == load(st)
        meId == db.currentUserId
        m == FirstTrue([i \in DOMAIN db.users |-> db.users[i].id = meId])
        mine == listMyCourses(st).ret
        myCourses == {mine[i].id : i \in DOMAIN mine}
        myAvailability == db.users[m].availability
        buddy(user) ==
            LET theirs == listMyCoursesByStudentId(st, user.id).ret
                theirCourses == {theirs[i].id : i \in DOMAIN theirs}
                mutualCourses == myCourses \cap theirCourses
            IN  /\ user.id # meId
                /\ mutualCourses # {}
                /\ \E i \in DOMAIN myAvailability : \E j \in DOMAIN user.availability :
                      slotsOverlap(myAvailability[i], user.availability[j])
    IN  IF ~assertLoggedIn(db) THEN NotLoggedIn
        ELSE IF m = 0 THEN Returned(<<>>)
        ELSE Returned(SelectSeq(db.users, buddy))

\* ------------------------------------------------------------------ inputs

\* Display names given to createUser.
Names == {<<" ","A","l"," ">>}

\* Usernames given to createUser: two that can be registered, one too short
\* and one with a space.
Usernames ==
    {<<"E","l","i">>, <<"b","o","_","9">>, <<"a">>, <<"a"," ","b">>}

\* Usernames given to login and getUserByUsername: the former in other
\* spellings, and nobody's.
LoginNames == {<<"e","l","i">>, <<"E","l","i">>, <<"B","O","_","9">>, <<"k","i","m">>}

\* Course codes given to the course operations.
Codes == {<<" ","c","s","1"," ">>, <<"C","S","1">>}

\* Availability slots given to addMeetingTime and removeMeetingTime.
Slots ==
    {[day |-> "Monday", startTime |-> <<"0","9",":","0","0">>,
      endTime |-> <<"1","0",":","3","0">>]}

\* Proposed meeting times (Unix timestamps) given to createStudySessionRequest.
Times == {1000}

\* The identifiers a caller may pass for a row of `rows`: those of the rows,
\* and one that no row has.
IdsOf(rows) == {rows[i].id : i \in DOMAIN rows} \cup {NoSuchId}

\* ------------------------------------------------------------ state machine

\* The stored blob after an operation: what its last save() wrote.
stored(st, r) == IF r.saves = <<>> THEN st ELSE save(r.saves[Len(r.saves)])

\* The model's bound on the only operation that adds a study session: none
\* of the documents it saves has more than `max` of them.
WithinBounds(r, max) == \A k \in DOMAIN r.saves : Len(r.saves[k].studySessions) <= max

\* One call of a DB operation: `r` is what the operation did.
Call(r) ==
    /\ storage' = stored(storage, r)
    /\ UNCHANGED probe

\* No call recorded.
NoProbe == [op |-> "none"]

\* A browser that never ran the application: the key is absent.
Absent == [kind |-> "absent", doc |-> EmptyTables]

Init ==
    /\ storage = Absent
    /\ probe = NoProbe

Reset == Call(reset(storage))

Dump == Call(dump(storage))

Me == Call(me(storage))

Login(username) == Call(login(storage, username))

CreateUser(name, username) ==
    Call(createUser(storage, name, username))

Logout == Call(logout(storage))

GetUserByUsername(username) ==
    Call(getUserByUsername(storage, username))

AddMeetingTime(slot) ==
    Call(addMeetingTime(storage, slot.day, slot.startTime, slot.endTime))

RemoveMeetingTime(slot) ==
    Call(removeMeetingTime(storage, slot))

GetOrCreateCourse(code) ==
    Call(getOrCreateCourse(storage, code))

AddEnrollment(code) == Call(addEnrollment(storage, code))

RemoveEnrollment(code) == Call(removeEnrollment(storage, code))

ListMyCourses == Call(listMyCourses(storage))

ListMyCoursesByStudentId(studentId) ==
    Call(listMyCoursesByStudentId(storage, studentId))

Classmates(code) == Call(classmates(storage, code))

GetCourseByCode(code) == Call(getCourseByCode(storage, code))

ListMutualCourses(otherStudentId) ==
    Call(listMutualCourses(storage, otherStudentId))

CreateStudySessionRequest(requesteeId, courseId, time) ==
    LET r == createStudySessionRequest(storage, requesteeId, courseId, time)
    IN  WithinBounds(r, MaxSessions) /\ Call(r)

ListPendingRequestsForMe ==
    Call(listPendingRequestsForMe(storage))

UpdateStudySessionStatus(sessionId, newStatus) ==
    Call(updateStudySessionStatus(storage, sessionId, newStatus))

ListMyStudySessions == Call(listMyStudySessions(storage))

SuggestStudyBuddies == Call(suggestStudyBuddies(storage))

Next ==
    \/ Reset
    \/ Dump
    \/ Me
    \/ \E username \in LoginNames : Login(username)
    \/ \E name \in Names, username \in Usernames : CreateUser(name, username)
    \/ Logout
    \/ \E username \in LoginNames : GetUserByUsername(username)
    \/ \E slot \in Slots : AddMeetingTime(slot)
    \/ \E slot \in Slots : RemoveMeetingTime(slot)
    \/ \E code \in Codes : GetOrCreateCourse(code)
    \/ \E code \in Codes : AddEnrollment(code)
    \/ \E code \in Codes : RemoveEnrollment(code)
    \/ ListMyCourses
    \/ \E studentId \in IdsOf(storage.doc.users) : ListMyCoursesByStudentId(studentId)
    \/ \E code \in Codes : Classmates(code)
    \/ \E code \in Codes : GetCourseByCode(code)
    \/ \E otherStudentId \in IdsOf(storage.doc.users) : ListMutualCourses(otherStudentId)
    \/ \E requesteeId \in IdsOf(storage.doc.users), courseId \in IdsOf(storage.doc.courses),
          time \in Times :
          CreateStudySessionRequest(requesteeId, courseId, time)
    \/ ListPendingRequestsForMe
    \/ \E sessionId \in IdsOf(storage.doc.studySessions), newStatus \in StudySessionStatus :
          UpdateStudySessionStatus(sessionId, newStatus)
    \/ ListMyStudySessions
    \/ SuggestStudyBuddies

Spec == Init /\ [][Next]_vars

\* ------------------------------------------- createUser on many usernames

\* The characters of the usernames tried: letters of both cases, a digit, the
\* three punctuation marks of the pattern, a space and another mark.
UsernameAlphabet == {"a", "B", "7", "_", ".", "-", " ", "!"}

\* Every string of at most MinUsernameLength characters of the alphabet.
ShortUsernames == UNION {[1..n -> UsernameAlphabet] : n \in 0..MinUsernameLength}

\* `seed` followed by as many "x" as make it n characters long.
Padded(seed, n) == seed \o [i \in 1..(n - Len(seed)) |-> "x"]

\* The strings of MinUsernameLength characters, padded to one more and to the
\* lengths around MaxUsernameLength.
LongUsernames ==
    {Padded(seed, n) : seed \in [1..MinUsernameLength -> UsernameAlphabet],
                       n \in {MinUsernameLength + 1, MaxUsernameLength - 1,
                              MaxUsernameLength, MaxUsernameLength + 1}}

UsernameSamples == ShortUsernames \cup LongUsernames

\* One recorded call: `r` is what the operation did on the stored document.
Record(op, args, r) ==
    /\ probe.op = "none"
    /\ storage' = stored(storage, r)
    /\ probe' = [op |-> op, args |-> args, before |-> storage,
                 error |-> r.error, ret |-> r.ret, saves |-> Len(r.saves)]

\* The store when first opened, or with one user already registered.
InitUsername ==
    /\ storage \in {Absent,
                    stored(Absent, createUser(Absent, <<"B","o">>, <<"a","B","7">>))}
    /\ probe = NoProbe

CreateUserOnce(name, username) ==
    Record("createUser", <<name, username>>, createUser(storage, name, username))

NextUsername == \E name \in Names, username \in UsernameSamples : CreateUserOnce(name, username)

SpecUsername == InitUsername /\ [][NextUsername]_vars

\* ------------------------------------------- two students, two courses

\* Course codes given to the course operations where two courses are told
\* apart: two spellings of one code, and another code.
CourseCodes == {<<" ","c","s","1"," ">>, <<"C","S","1">>, <<"m","a","2">>}

\* The course and enrollment operations, called in any order by two students
\* who register, log in and log out.
NextCourses ==
    \/ Reset
    \/ \E name \in Names, username \in Usernames : CreateUser(name, username)
    \/ \E username \in LoginNames : Login(username)
    \/ Logout
    \/ \E code \in CourseCodes : GetOrCreateCourse(code)
    \/ \E code \in CourseCodes : AddEnrollment(code)
    \/ \E code \in CourseCodes : RemoveEnrollment(code)
    \/ ListMyCourses
    \/ \E studentId \in IdsOf(storage.doc.users) : ListMyCoursesByStudentId(studentId)
    \/ \E code \in CourseCodes : Classmates(code)
    \/ \E code \in CourseCodes : GetCourseByCode(code)
    \/ \E otherStudentId \in IdsOf(storage.doc.users) : ListMutualCourses(otherStudentId)

SpecCourses == Init /\ [][NextCourses]_vars

\* ------------------------------------------ three students, one course

\* Usernames given to createUser and login where three students share a
\* course.
ClassUsernames == {<<"E","l","i">>, <<"b","o","_","9">>, <<"k","i","m">>}

\* Three students who register, log in, log out, enroll in and leave one
\* course, and look at its classmates.
NextClassmates ==
    \/ \E name \in Names, username \in ClassUsernames : CreateUser(name, username)
    \/ \E username \in ClassUsernames : Login(username)
    \/ Logout
    \/ \E code \in Codes : AddEnrollment(code)
    \/ \E code \in Codes : RemoveEnrollment(code)
    \/ \E code \in Codes : Classmates(code)

SpecClassmates == Init /\ [][NextClassmates]_vars

\* ------------------------------------------- two students, several slots

\* Availability slots that differ from one another in one field only.
WeekSlots ==
    {[day |-> "Wednesday", startTime |-> <<"1","7",":","0","0">>,
      endTime |-> <<"1","8",":","0","0">>],
     [day |-> "Thursday", startTime |-> <<"1","7",":","0","0">>,
      endTime |-> <<"1","8",":","0","0">>],
     [day |-> "Wednesday", startTime |-> <<"1","7",":","0","0">>,
      endTime |-> <<"1","9",":","0","0">>]}

\* Two students who register, log in and log out, and add and remove
\* meeting times.
NextAvailability ==
    \/ \E name \in Names, username \in Usernames : CreateUser(name, username)
    \/ \E username \in LoginNames : Login(username)
    \/ Logout
    \/ Me
    \/ \E slot \in WeekSlots : AddMeetingTime(slot)
    \/ \E slot \in WeekSlots : RemoveMeetingTime(slot)

SpecAvailability == Init /\ [][NextAvailability]_vars

\* -------------------------------------------- two students, their requests

\* createStudySessionRequest where several requests are stored.
RequestSession(requesteeId, courseId, time) ==
    LET r == createStudySessionRequest(storage, requesteeId, courseId, time)
    IN  WithinBounds(r, MaxRequests) /\ Call(r)

\* Two students who register, log in and log out, send each other requests
\* for a course, or for a course the store does not know, and answer them.
NextRequests ==
    \/ \E name \in Names, username \in Usernames : CreateUser(name, username)
    \/ \E username \in LoginNames : Login(username)
    \/ Logout
    \/ \E code \in Codes : GetOrCreateCourse(code)
    \/ \E requesteeId \in IdsOf(storage.doc.users) \ {NoSuchId},
          courseId \in IdsOf(storage.doc.courses), time \in Times :
          RequestSession(requesteeId, courseId, time)
    \/ \E sessionId \in IdsOf(storage.doc.studySessions), newStatus \in StudySessionStatus :
          UpdateStudySessionStatus(sessionId, newStatus)
    \/ ListPendingRequestsForMe
    \/ ListMyStudySessions

SpecRequests == Init /\ [][NextRequests]_vars

\* ----------------------------------------- three students, their requests

\* The only element of a set of one element.
Only(S) == CHOOSE x \in S : TRUE

\* The store after one call of an operation on `st`; `call` names the
\* operation and its arguments, a request naming its requestee and course by
\* their positions in the tables.
Step(st, call) ==
    IF call.op = "createUser" THEN stored(st, createUser(st, call.name, call.username))
    ELSE IF call.op = "login" THEN stored(st, login(st, call.username))
    ELSE IF call.op = "getOrCreateCourse" THEN stored(st, getOrCreateCourse(st, call.code))
    ELSE IF call.op = "addEnrollment" THEN stored(st, addEnrollment(st, call.code))
    ELSE IF call.op = "addMeetingTime"
    THEN stored(st, addMeetingTime(st, call.slot.day, call.slot.startTime, call.slot.endTime))
    ELSE stored(st, createStudySessionRequest(st, load(st).users[call.requestee].id,
                                              load(st).courses[call.course].id, call.time))

\* The store after the calls of the list `calls`, one after the other, on
\* `st`.
Run(st, calls) ==
    LET after[i \in 0..Len(calls)] ==
            IF i = 0 THEN st ELSE Only({Step(s, calls[i]) : s \in {after[i - 1]}})
    IN  after[Len(calls)]

\* The store after three students registered and a course was created.
ThreeStudents ==
    Run(Absent, <<[op |-> "createUser", name |-> <<"A","l">>, username |-> <<"E","l","i">>],
                  [op |-> "createUser", name |-> <<"A","l">>, username |-> <<"b","o","_","9">>],
                  [op |-> "createUser", name |-> <<"A","l">>, username |-> <<"k","i","m">>],
                  [op |-> "getOrCreateCourse", code |-> <<"C","S","1">>]>>)

InitConfirmed ==
    /\ storage = ThreeStudents
    /\ probe = NoProbe

\* Three students who log in and log out, send each other requests for the
\* course, answer them and look at their confirmed sessions.
NextConfirmed ==
    \/ \E username \in ClassUsernames : Login(username)
    \/ Logout
    \/ \E requesteeId \in IdsOf(storage.doc.users) \ {NoSuchId},
          courseId \in IdsOf(storage.doc.courses) \ {NoSuchId}, time \in Times :
          RequestSession(requesteeId, courseId, time)
    \/ \E sessionId \in IdsOf(storage.doc.studySessions), newStatus \in StudySessionStatus :
          UpdateStudySessionStatus(sessionId, newStatus)
    \/ ListMyStudySessions

SpecConfirmed == InitConfirmed /\ [][NextConfirmed]_vars

\* ------------------------------- three students, their courses and slots

\* The store after `username` logged in on `st`, enrolled in the courses of
\* the list `codes` and added the slots of the list `slots`.
Setup(st, username, codes, slots) ==
    Run(st, <<[op |-> "login", username |-> username]>>
            \o [i \in DOMAIN codes |-> [op |-> "addEnrollment", code |-> codes[i]]]
            \o [i \in DOMAIN slots |-> [op |-> "addMeetingTime", slot |-> slots[i]]])

\* The courses a student enrolls in: none, one, the other, or both.
CourseLists ==
    {<<>>, <<<<" ","c","s","1"," ">>>>, <<<<"m","a","2">>>>,
     <<<<"m","a","2">>, <<"C","S","1">>>>}

\* Two slots of one day, the second starting when the first ends.
MorningSlot ==
    [day |-> "Monday", startTime |-> <<"0","9",":","0","0">>, endTime |-> <<"1","0",":","3","0">>]

NoonSlot ==
    [day |-> "Monday", startTime |-> <<"1","0",":","3","0">>, endTime |-> <<"1","2",":","0","0">>]

\* The slots a student adds: none, one, the other, or both.
SlotLists == {<<>>, <<MorningSlot>>, <<NoonSlot>>, <<NoonSlot, MorningSlot>>}

\* Three registered students, each with some of the courses and slots.
InitBuddies ==
    /\ \E c1, c2, c3 \in CourseLists, a1, a2, a3 \in SlotLists :
          storage = Setup(Setup(Setup(ThreeStudents, <<"E","l","i">>, c1, a1),
                                <<"b","o","_","9">>, c2, a2),
                          <<"k","i","m">>, c3, a3)
    /\ probe = NoProbe

\* Any of the students logs in and asks for suggestions.
NextBuddies ==
    \/ \E username \in ClassUsernames : Login(username)
    \/ Logout
    \/ SuggestStudyBuddies

SpecBuddies == InitBuddies /\ [][NextBuddies]_vars

\* ------------------------------------- two students, one slot each

\* Times of day as the application's time inputs give them (HH:MM).
Intervals ==
    {<<<<"0","9",":","0","0">>, <<"1","0",":","0","0">>>>, <<<<"1","0",":","0","0">>, <<"1","1",":","0","0">>>>,
     <<<<"0","9",":","0","0">>, <<"1","0",":","3","0">>>>, <<<<"0","9",":","3","0">>, <<"0","9",":","4","5">>>>,
     <<<<"1","3",":","0","0">>, <<"1","4",":","0","0">>>>}

\* The slots of two days with these times.
ClockSlots ==
    {[day |-> day, startTime |-> i[1], endTime |-> i[2]] :
        day \in {"Monday", "Tuesday"}, i \in Intervals}

\* Two of three registered students share a course and have one slot each.
InitOverlap ==
    /\ \E mine, theirs \in ClockSlots :
          storage = Setup(Setup(ThreeStudents, <<"E","l","i">>, <<<<"C","S","1">>>>, <<mine>>),
                          <<"b","o","_","9">>, <<<<"C","S","1">>>>, <<theirs>>)
    /\ probe = NoProbe

SpecOverlap == InitOverlap /\ [][NextBuddies]_vars

\* ------------------------------------------------ what load() is given

\* A document of the present version: two students, both enrolled in two
\* courses, with a slot each and a request between them.
TwoStudents ==
    Run(Setup(Setup(Run(Absent,
                        <<[op |-> "createUser", name |-> <<"A","l">>,
                           username |-> <<"E","l","i">>],
                          [op |-> "createUser", name |-> <<"A","l">>,
                           username |-> <<"b","o","_","9">>]>>),
                    <<"E","l","i">>, <<<<"C","S","1">>, <<"M","A","2">>>>, <<MorningSlot>>),
              <<"b","o","_","9">>, <<<<"C","S","1">>, <<"M","A","2">>>>, <<NoonSlot>>),
        <<[op |-> "createStudySessionRequest", requestee |-> 1, course |-> 1,
           time |-> 1000]>>)

\* `seq` without the elements at the positions in `dropped`.
Dropping(seq, dropped) ==
    LET kept(i) == i \notin dropped
        positions == SelectSeq([i \in DOMAIN seq |-> i], kept)
    IN  [k \in DOMAIN positions |-> seq[positions[k]]]

\* What the key may hold when the application starts: nothing; a text that
\* does not parse; the present version's document; that document as a
\* version that overwrote courses with a stale copy left it, with some of
\* the courses missing; and what versions that had no studySessions table,
\* or no tables but users, wrote.
BlobsOf(doc) ==
    LET stale == {[doc EXCEPT !.courses = Dropping(@, dropped)] :
                     dropped \in SUBSET DOMAIN doc.courses}
        legacy == {[users |-> d.users, courses |-> d.courses,
                    enrollments |-> d.enrollments, currentUserId |-> d.currentUserId] :
                      d \in stale}
    IN  {Absent}
        \cup {[kind |-> "corrupt", doc |-> d] : d \in stale}
        \cup {[kind |-> "json", doc |-> d] : d \in stale \cup legacy}
        \cup {[kind |-> "json", doc |-> [users |-> doc.users]]}

Blobs == UNION {BlobsOf(doc) : doc \in {TwoStudents.doc}}

InitLoad ==
    /\ storage \in Blobs
    /\ probe = NoProbe

\* The operations that read the document, and those that two students use
\* to log in and out and to leave their courses.
NextLoad ==
    \/ Dump
    \/ Me
    \/ \E username \in LoginNames : GetUserByUsername(username)
    \/ ListMyCourses
    \/ \E studentId \in IdsOf(load(storage).users) : ListMyCoursesByStudentId(studentId)
    \/ \E code \in CourseCodes : Classmates(code)
    \/ \E code \in CourseCodes : GetCourseByCode(code)
    \/ \E otherStudentId \in IdsOf(load(storage).users) : ListMutualCourses(otherStudentId)
    \/ ListPendingRequestsForMe
    \/ ListMyStudySessions
    \/ SuggestStudyBuddies
    \/ \E username \in LoginNames : Login(username)
    \/ Logout
    \/ \E code \in CourseCodes : RemoveEnrollment(code)

SpecLoad == InitLoad /\ [][NextLoad]_vars

\* ------------------------------- requests to users the store does not know

\* Two students who register, log in and log out, send requests to each
\* other and to identifiers that are nobody's, answer them, list their
\* sessions and clear the store.
NextParticipants ==
    \/ Reset
    \/ \E name \in Names, username \in Usernames : CreateUser(name, username)
    \/ \E username \in LoginNames : Login(username)
    \/ Logout
    \/ \E requesteeId \in IdsOf(storage.doc.users), time \in Times :
          RequestSession(requesteeId, NoSuchId, time)
    \/ \E sessionId \in IdsOf(storage.doc.studySessions), newStatus \in StudySessionStatus :
          UpdateStudySessionStatus(sessionId, newStatus)
    \/ ListMyStudySessions

SpecParticipants == Init /\ [][NextParticipants]_vars

\* ------------------------------------------ two students, all the tables

\* Two students with courses, enrollments, slots and a request stored, who
\* log in and out, leave their courses, add and remove slots and answer the
\* request.
InitRows ==
    /\ storage = TwoStudents
    /\ probe = NoProbe

NextRows ==
    \/ \E username \in LoginNames : Login(username)
    \/ Logout
    \/ \E code \in CourseCodes : RemoveEnrollment(code)
    \/ \E slot \in Slots : AddMeetingTime(slot)
    \/ \E slot \in {MorningSlot, NoonSlot} : RemoveMeetingTime(slot)
    \/ \E sessionId \in IdsOf(storage.doc.studySessions), newStatus \in StudySessionStatus :
          UpdateStudySessionStatus(sessionId, newStatus)

SpecRows == InitRows /\ [][NextRows]_vars

\* ------------------------------------- slots that end before they start

\* Slots of one day as a caller that does not compare start and end may
\* give them: 09:00-11:00 and 10:00-10:30, and within the former a slot that
\* ends before it starts, 10:30-10:00, and one that ends as it starts,
\* 10:00-10:00.
GivenSlots ==
    {[day |-> "Monday", startTime |-> i[1], endTime |-> i[2]] :
        i \in {<<<<"0","9",":","0","0">>, <<"1","1",":","0","0">>>>,
               <<<<"1","0",":","0","0">>, <<"1","0",":","3","0">>>>,
               <<<<"1","0",":","3","0">>, <<"1","0",":","0","0">>>>,
               <<<<"1","0",":","0","0">>, <<"1","0",":","0","0">>>>}}

\* One or two of these slots.
GivenSlotLists ==
    {<<a>> : a \in GivenSlots} \cup {pair \in GivenSlots \X GivenSlots : pair[1] # pair[2]}

\* Two of three registered students share a course; the first has one or
\* two of the slots and the second one.
InitGiven ==
    /\ \E mine \in GivenSlotLists, theirs \in GivenSlots :
          storage = Setup(Setup(ThreeStudents, <<"E","l","i">>, <<<<"C","S","1">>>>, mine),
                          <<"b","o","_","9">>, <<<<"C","S","1">>>>, <<theirs>>)
    /\ probe = NoProbe

SpecGiven == InitGiven /\ [][NextBuddies]_vars

\* --------------------------------------------- save(load()), many blobs

\* The times a caller passes: a timestamp, and the time of an invalid Date.
TimesGiven == Times \cup {NaN}

\* The application started on each of the blobs; the students log in and
\* out, leave courses, send requests with and without a valid time, and
\* look at the document.
NextRoundTrip ==
    \/ Dump
    \/ \E username \in LoginNames : Login(username)
    \/ Logout
    \/ \E code \in CourseCodes : RemoveEnrollment(code)
    \/ \E requesteeId \in IdsOf(load(storage).users) \ {NoSuchId},
          courseId \in IdsOf(load(storage).courses) \ {NoSuchId}, time \in TimesGiven :
          RequestSession(requesteeId, courseId, time)

SpecRoundTrip == InitLoad /\ [][NextRoundTrip]_vars

\* ================================================================== claims

\* The document the operations see.
Doc == load(storage)

\* Two characters that are equal, or the two cases of one letter.
SameLetter(a, b) == a = b \/ \E i \in DOMAIN Lowers : {a, b} = {Lowers[i], Uppers[i]}

\* Two strings that are equal ignoring letter case.
EqualIgnoringCase(x, y) ==
    Len(x) = Len(y) /\ \A i \in DOMAIN x : SameLetter(x[i], y[i])

\* Usernames tried against the stored ones: those the operations are called
\* with, further spellings of them, and one more well-formed name.
ProbeUsernames ==
    Usernames \cup {<<"e","l","i">>, <<"E","L","I">>, <<"B","O","_","9">>, <<"k","i","m">>}

\* The rows of users whose username equals `username` ignoring case.
UsersNamed(username) ==
    {i \in DOMAIN Doc.users : EqualIgnoringCase(Doc.users[i].username, username)}

\* The session with the identifier `id` keeps its status, or goes from
\* pending to confirmed or declined, in this step.
StatusStepAllowed(old, new) ==
    \/ new.status = old.status
    \/ old.status = "pending" /\ new.status \in {"confirmed", "declined"}

\* C1 (as claimed): the only status transitions of a study session that ever
\* occur are pending -> confirmed and pending -> declined; once confirmed or
\* declined, no call changes the status.
C1_StatusIsTerminal ==
    [][LET old == Doc
           new == Doc'
       IN  \A i \in DOMAIN old.studySessions : \A j \in DOMAIN new.studySessions :
              new.studySessions[j].id = old.studySessions[i].id
              => StatusStepAllowed(old.studySessions[i], new.studySessions[j])]_vars

\* C2: updateStudySessionStatus on an existing session by a logged-in user who
\* is not its requestee throws 'You are not authorized to update this
\* session.' and leaves the stored document as it was; and a step changes a
\* session's status only when the current user is the session's requestee.
C2_OnlyRequesteeUpdates ==
    /\ [](LET db == Doc
           IN  \A i \in DOMAIN db.studySessions : \A newStatus \in StudySessionStatus :
                  (db.currentUserId # Null /\ db.currentUserId # db.studySessions[i].requesteeId)
                  => LET r == updateStudySessionStatus(storage, db.studySessions[i].id,
                                                       newStatus)
                     IN  /\ r.error = "You are not authorized to update this session."
                         /\ stored(storage, r) = storage)
    /\ [][LET old == Doc
               new == Doc'
           IN  \A i \in DOMAIN old.studySessions : \A j \in DOMAIN new.studySessions :
                  (/\ new.studySessions[j].id = old.studySessions[i].id
                   /\ new.studySessions[j].status # old.studySessions[i].status)
                  => old.currentUserId = old.studySessions[i].requesteeId]_vars

\* C2 witness: a session is stored and its requester is the current user, so
\* that the requester's update is refused.
C2_Witness ==
    \E i \in DOMAIN Doc.studySessions :
       /\ Doc.currentUserId = Doc.studySessions[i].requesterId
       /\ updateStudySessionStatus(storage, Doc.studySessions[i].id, "confirmed").error
             = "You are not authorized to update this session."

\* The identifiers of the entries of a list of detailed sessions.
SessionIds(list) == {list[i].id : i \in DOMAIN list}

\* The stored blob after `username` logs in on `st`.
AfterLogin(st, username) == stored(st, login(st, username))

\* C3: when the requestee of a pending session is the current user,
\* updateStudySessionStatus(id, "confirmed") returns, and then dump shows the
\* session confirmed, listPendingRequestsForMe no longer lists it, and
\* listMyStudySessions lists it for the requestee and, once logged in, for
\* the requester.
C3_ConfirmIsVisible ==
    \A i \in DOMAIN Doc.studySessions :
       LET session == Doc.studySessions[i]
           r == updateStudySessionStatus(storage, session.id, "confirmed")
           after == stored(storage, r)
           requesters == {k \in DOMAIN Doc.users : Doc.users[k].id = session.requesterId}
       IN  (session.status = "pending" /\ Doc.currentUserId = session.requesteeId)
           => /\ r.error = NoError
              /\ dump(after).ret.studySessions[i] = [session EXCEPT !.status = "confirmed"]
              /\ session.id \notin SessionIds(listPendingRequestsForMe(after).ret)
              /\ session.id \in SessionIds(listMyStudySessions(after).ret)
              /\ requesters # {}
              /\ \A k \in requesters :
                    session.id \in SessionIds(
                        listMyStudySessions(AfterLogin(after, Doc.users[k].username)).ret)

\* C3 witness: the requestee is the current user, the session is confirmed,
\* and listMyStudySessions lists it.
C3_Witness ==
    \E i \in DOMAIN Doc.studySessions :
       /\ Doc.studySessions[i].status = "confirmed"
       /\ Doc.currentUserId = Doc.studySessions[i].requesteeId
       /\ Doc.studySessions[i].id \in SessionIds(listMyStudySessions(storage).ret)

\* An operation that threw left the stored blob as it was.
FailedCleanly(r) == r.error # NoError => stored(storage, r) = storage

\* C4: an operation that throws leaves the stored document exactly as it
\* was before the call, for the arguments the operations are called with and
\* the identifiers in use.
C4_FailureLeavesDocument ==
    /\ \A name \in Names, username \in ProbeUsernames :
          FailedCleanly(createUser(storage, name, username))
    /\ \A username \in ProbeUsernames : FailedCleanly(login(storage, username))
    /\ \A code \in Codes :
          FailedCleanly(addEnrollment(storage, code))
          /\ FailedCleanly(removeEnrollment(storage, code))
    /\ \A slot \in Slots :
          FailedCleanly(addMeetingTime(storage, slot.day, slot.startTime, slot.endTime))
          /\ FailedCleanly(removeMeetingTime(storage, slot))
    /\ \A requesteeId \in IdsOf(Doc.users), courseId \in IdsOf(Doc.courses), time \in Times :
          FailedCleanly(createStudySessionRequest(storage, requesteeId, courseId, time))
    /\ FailedCleanly(listPendingRequestsForMe(storage))
    /\ \A sessionId \in IdsOf(Doc.studySessions), newStatus \in StudySessionStatus :
          FailedCleanly(updateStudySessionStatus(storage, sessionId, newStatus))
    /\ \A otherStudentId \in IdsOf(Doc.users) :
          FailedCleanly(listMutualCourses(storage, otherStudentId))
    /\ FailedCleanly(suggestStudyBuddies(storage))

\* C4 witness: the current user is enrolled in the course, so that enrolling
\* again throws, and nobody has a course the store does not know.
C4_Witness ==
    /\ \E code \in Codes : addEnrollment(storage, code).error = "Course already added"
    /\ Len(Doc.courses) = 1

\* An operation threw 'Not logged in' and saved nothing.
RefusedLogin(r) == r.error = "Not logged in" /\ r.saves = <<>>

\* C5: with no current user, every operation that needs one throws 'Not
\* logged in' whatever its arguments (an unknown session, a new course
\* code, no requestee), and writes nothing.
C5_NotLoggedInFirst ==
    Doc.currentUserId = Null
    => /\ \A code \in Codes \cup {<<"n","e","w">>} :
             RefusedLogin(addEnrollment(storage, code))
             /\ RefusedLogin(removeEnrollment(storage, code))
       /\ \A slot \in Slots :
             RefusedLogin(addMeetingTime(storage, slot.day, slot.startTime, slot.endTime))
             /\ RefusedLogin(removeMeetingTime(storage, slot))
       /\ \A requesteeId \in IdsOf(Doc.users) \cup {Null}, courseId \in IdsOf(Doc.courses),
             time \in Times :
             RefusedLogin(createStudySessionRequest(storage, requesteeId, courseId, time))
       /\ RefusedLogin(listPendingRequestsForMe(storage))
       /\ \A sessionId \in IdsOf(Doc.studySessions), newStatus \in StudySessionStatus :
             RefusedLogin(updateStudySessionStatus(storage, sessionId, newStatus))
       /\ \A otherStudentId \in IdsOf(Doc.users) :
             RefusedLogin(listMutualCourses(storage, otherStudentId))
       /\ RefusedLogin(suggestStudyBuddies(storage))

\* C5 witness: nobody is logged in, a session is stored, and an update of an
\* unknown session throws 'Not logged in'.
C5_Witness ==
    /\ Doc.currentUserId = Null
    /\ Doc.studySessions # <<>>
    /\ updateStudySessionStatus(storage, NoSuchId, "confirmed").error = "Not logged in"

\* C6: createUser with a username that some stored user has, ignoring case,
\* throws 'Username already in use', adds no user and keeps the current user.
C6_DuplicateUsername ==
    \A name \in Names, username \in ProbeUsernames :
       UsersNamed(username) # {}
       => LET r == createUser(storage, name, username)
          IN  /\ r.error = "Username already in use"
              /\ load(stored(storage, r)).users = Doc.users
              /\ load(stored(storage, r)).currentUserId = Doc.currentUserId

\* C6 witness: a stored username differs from the one given only in case.
C6_Witness ==
    \E name \in Names, username \in ProbeUsernames :
       /\ \E i \in UsersNamed(username) : Doc.users[i].username # username
       /\ createUser(storage, name, username).error = "Username already in use"

HandleCharacters == Range(Lowers) \cup Range(Uppers) \cup Range(Digits) \cup {"_", ".", "-"}

\* C8: with no stored user of the same username ignoring case, createUser
\* returns exactly when the username is 3 to 20 characters, each a letter, a
\* digit, '_', '.' or '-', and throws 'Invalid username format' otherwise.
C8_UsernamePattern ==
    probe.op = "createUser"
    => LET username == probe.args[2]
           users == load(probe.before).users
           wellFormed == /\ Len(username) >= 3
                         /\ Len(username) <= 20
                         /\ \A i \in DOMAIN username : username[i] \in HandleCharacters
       IN  (\A i \in DOMAIN users : ~EqualIgnoringCase(users[i].username, username))
           => IF wellFormed THEN probe.error = NoError
              ELSE probe.error = "Invalid username format"

\* C8 witness: a username of 20 characters was accepted.
C8_Witness ==
    /\ probe.op = "createUser"
    /\ probe.error = NoError
    /\ Len(probe.args[2]) = 20
    /\ Len(load(storage).users) = Len(load(probe.before).users) + 1

\* C9: a createUser that returns appends one user with no availability to
\* users, leaves the other tables alone, makes that user the current user,
\* and returns the user that me() then returns.
C9_CreateUserAppends ==
    \A name \in Names, username \in ProbeUsernames :
       LET r == createUser(storage, name, username)
           after == load(stored(storage, r))
       IN  r.error = NoError
           => /\ Len(r.saves) = 1
              /\ after.users = Append(Doc.users, r.ret)
              /\ r.ret.availability = <<>>
              /\ \A i \in DOMAIN Doc.users : Doc.users[i].id # r.ret.id
              /\ after.currentUserId = r.ret.id
              /\ me(stored(storage, r)).ret = <<r.ret>>
              /\ after.courses = Doc.courses
              /\ after.enrollments = Doc.enrollments
              /\ after.studySessions = Doc.studySessions

\* C9 witness: the user created last is the current user, in place of the
\* user who was logged in before.
C9_Witness ==
    /\ Len(Doc.users) = 2
    /\ Doc.currentUserId = Doc.users[2].id
    /\ me(storage).ret = <<Doc.users[2]>>

\* C10: login with a username that a stored user has, ignoring case, makes
\* that user the current user and returns it, as getUserByUsername does;
\* with any other username it throws 'User not found' and the current user
\* stays who it was.
C10_Login ==
    \A username \in ProbeUsernames :
       LET r == login(storage, username)
           after == load(stored(storage, r))
       IN  IF UsersNamed(username) # {}
           THEN /\ r.error = NoError
                /\ \E i \in UsersNamed(username) : r.ret = Doc.users[i]
                /\ after.currentUserId = r.ret.id
                /\ getUserByUsername(storage, username).ret = <<r.ret>>
           ELSE /\ r.error = "User not found"
                /\ after.currentUserId = Doc.currentUserId
                /\ stored(storage, r) = storage

\* C10 witness: somebody else is logged in and a stored user's name, spelled
\* in another case, logs that user in.
C10_Witness ==
    \E username \in ProbeUsernames :
       /\ \E i \in UsersNamed(username) :
             /\ Doc.users[i].username # username
             /\ Doc.currentUserId \notin {Null, Doc.users[i].id}
       /\ login(storage, username).error = NoError

\* C11: logout() returns, after it me() returns nobody, and users, courses,
\* enrollments and studySessions are what they were before the call.
C11_LogoutClearsCurrentUser ==
    LET r == logout(storage)
        after == stored(storage, r)
    IN  /\ r.error = NoError
        /\ me(after).ret = <<>>
        /\ load(after).currentUserId = Null
        /\ load(after).users = Doc.users
        /\ load(after).courses = Doc.courses
        /\ load(after).enrollments = Doc.enrollments
        /\ load(after).studySessions = Doc.studySessions

\* C11 witness: nobody is logged in although users, a course, an enrollment
\* and a session are stored, which is the document a logout leaves.
C11_Witness ==
    /\ Doc.currentUserId = Null
    /\ me(storage).ret = <<>>
    /\ Len(Doc.users) = 2
    /\ Doc.courses # <<>>
    /\ Doc.enrollments # <<>>
    /\ Doc.studySessions # <<>>

\* The course codes of the specification, each with spellings of it that
\* differ in letter case and in the white space around it.
CodeSpellings ==
    {[code |-> <<"C","S","1">>,
      spellings |-> {<<" ","c","s","1"," ">>, <<"C","S","1">>, <<"c","S","1","\n">>}],
     [code |-> <<"M","A","2">>,
      spellings |-> {<<"m","a","2">>, <<"\t","M","a","2">>}],
     [code |-> <<"P","H","3">>,
      spellings |-> {<<"p","h","3">>}]}

\* The rows of db.enrollments of `studentId` in the course with the code
\* `code`.
EnrollmentRows(db, studentId, code) ==
    {i \in DOMAIN db.enrollments :
        /\ db.enrollments[i].studentId = studentId
        /\ \E c \in DOMAIN db.courses :
              db.courses[c].code = code /\ db.courses[c].id = db.enrollments[i].courseId}

\* C12: when the current user has an enrollment in the course of a code,
\* addEnrollment with any spelling of the code throws 'Course already added'
\* and stores nothing; and after an addEnrollment that returned, one with
\* any spelling of the same code throws and the user has exactly one
\* enrollment in the course.
C12_EnrollTwice ==
    Doc.currentUserId # Null
    => \A class \in CodeSpellings : \A first \in class.spellings :
          LET r == addEnrollment(storage, first)
              after == stored(storage, r)
          IN  /\ EnrollmentRows(Doc, Doc.currentUserId, class.code) # {}
                 => r.error = "Course already added" /\ after = storage
              /\ r.error = NoError
                 => \A second \in class.spellings :
                       LET again == addEnrollment(after, second)
                       IN  /\ again.error = "Course already added"
                           /\ stored(after, again) = after
                           /\ Cardinality(EnrollmentRows(load(after), Doc.currentUserId,
                                                         class.code)) = 1

\* C12 witness: the current user is enrolled in a course, and enrolling with
\* the code in lower case and with spaces around it throws.
C12_Witness ==
    /\ Doc.currentUserId # Null
    /\ EnrollmentRows(Doc, Doc.currentUserId, <<"C","S","1">>) # {}
    /\ addEnrollment(storage, <<" ","c","s","1"," ">>).error = "Course already added"

\* C13: no two rows of enrollments have the same student and course.
C13_EnrollmentsUnique ==
    \A i, j \in DOMAIN storage.doc.enrollments :
       (/\ storage.doc.enrollments[i].studentId = storage.doc.enrollments[j].studentId
        /\ storage.doc.enrollments[i].courseId = storage.doc.enrollments[j].courseId)
       => i = j

\* C13 witness: two students are both enrolled in both courses.
C13_Witness ==
    /\ Len(Doc.enrollments) = 4
    /\ Len(Doc.users) = 2
    /\ Len(Doc.courses) = 2

\* C14: in the stored document every enrollment's courseId is the id of a
\* row of courses; and addEnrollment with a code that has no course yet
\* saves once, a document with a new course of that code and the current
\* user's enrollment in it.
C14_EnrollmentsReferenceCourses ==
    /\ \A i \in DOMAIN storage.doc.enrollments :
          \E c \in DOMAIN storage.doc.courses :
             storage.doc.courses[c].id = storage.doc.enrollments[i].courseId
    /\ Doc.currentUserId # Null
       => \A class \in CodeSpellings : \A code \in class.spellings :
             (\A c \in DOMAIN Doc.courses : Doc.courses[c].code # class.code)
             => LET r == addEnrollment(storage, code)
                    written == stored(storage, r).doc
                IN  /\ r.error = NoError
                    /\ Len(r.saves) = 1
                    /\ Len(written.courses) = Len(Doc.courses) + 1
                    /\ written.courses[Len(written.courses)].code = class.code
                    /\ written.enrollments =
                          Append(Doc.enrollments,
                                 [studentId |-> Doc.currentUserId,
                                  courseId |-> written.courses[Len(written.courses)].id])

\* C14 witness: a student enrolled in the one course there is enrolls with a
\* code that has no course, and the document written has both courses and
\* both enrollments.
C14_Witness ==
    /\ Doc.currentUserId # Null
    /\ Len(Doc.courses) = 1
    /\ Len(Doc.enrollments) = 2
    /\ LET r == addEnrollment(storage, <<"m","a","2">>)
       IN  /\ r.error = NoError
           /\ Len(stored(storage, r).doc.courses) = 2
           /\ Len(stored(storage, r).doc.enrollments) = 3

\* C15: getOrCreateCourse called twice with spellings of one code returns
\* the same course both times and adds at most one course, none when the
\* course was there; and no two rows of courses have the same code.
C15_CourseIdempotent ==
    /\ \A class \in CodeSpellings : \A first, second \in class.spellings :
          LET r1 == getOrCreateCourse(storage, first)
              r2 == getOrCreateCourse(stored(storage, r1), second)
              after == load(stored(stored(storage, r1), r2))
              known == \E c \in DOMAIN Doc.courses : Doc.courses[c].code = class.code
          IN  /\ r1.error = NoError /\ r2.error = NoError
              /\ r1.ret = r2.ret
              /\ r1.ret.code = class.code
              /\ after.courses = IF known THEN Doc.courses ELSE Append(Doc.courses, r1.ret)
    /\ \A i, j \in DOMAIN Doc.courses :
          Doc.courses[i].code = Doc.courses[j].code => i = j

\* C15 witness: two courses are stored, one that nobody is enrolled in and
\* one that has an enrollment.
C15_Witness ==
    /\ Len(Doc.courses) = 2
    /\ \E c \in DOMAIN Doc.courses : \A i \in DOMAIN Doc.enrollments :
          Doc.enrollments[i].courseId # Doc.courses[c].id
    /\ \E c \in DOMAIN Doc.courses : \E i \in DOMAIN Doc.enrollments :
          Doc.enrollments[i].courseId = Doc.courses[c].id

\* `seq` without its i-th element.
Without(seq, i) == SubSeq(seq, 1, i - 1) \o SubSeq(seq, i + 1, Len(seq))

\* C16: removeEnrollment by a logged-in user, with any spelling of a code,
\* returns; it removes the current user's enrollment row in the course of
\* that code when there is one, and leaves the other rows of enrollments, in
\* their order, and users, courses, studySessions and the current user as
\* they were; with no such course or no such row it changes nothing.
C16_UnenrollOnlyMine ==
    Doc.currentUserId # Null
    => \A class \in CodeSpellings : \A code \in class.spellings :
          LET r == removeEnrollment(storage, code)
              after == load(stored(storage, r))
              rows == EnrollmentRows(Doc, Doc.currentUserId, class.code)
          IN  /\ r.error = NoError
              /\ Cardinality(rows) <= 1
              /\ after.enrollments =
                    IF rows = {} THEN Doc.enrollments
                    ELSE Without(Doc.enrollments, CHOOSE i \in rows : TRUE)
              /\ after.users = Doc.users
              /\ after.courses = Doc.courses
              /\ after.studySessions = Doc.studySessions
              /\ after.currentUserId = Doc.currentUserId

\* C16 witness: the current user and another student are enrolled in the
\* same course, and the current user's removeEnrollment leaves the other
\* student's row.
C16_Witness ==
    /\ Doc.currentUserId # Null
    /\ EnrollmentRows(Doc, Doc.currentUserId, <<"C","S","1">>) # {}
    /\ \E u \in DOMAIN Doc.users :
          /\ Doc.users[u].id # Doc.currentUserId
          /\ EnrollmentRows(Doc, Doc.users[u].id, <<"C","S","1">>) # {}
          /\ LET after == load(stored(storage, removeEnrollment(storage, <<"c","S","1","\n">>)))
             IN  /\ EnrollmentRows(after, Doc.users[u].id, <<"C","S","1">>) # {}
                 /\ EnrollmentRows(after, Doc.currentUserId, <<"C","S","1">>) = {}

\* `list` is the rows of `table` that satisfy `wanted` (a set of rows), each
\* once, in the order of the table.
IsSelection(list, table, wanted) ==
    /\ {list[i] : i \in DOMAIN list} = {table[k] : k \in {n \in DOMAIN table : table[n] \in wanted}}
    /\ \A i, j \in DOMAIN list : i < j =>
          \E k, l \in DOMAIN table : k < l /\ table[k] = list[i] /\ table[l] = list[j]

\* The courses of db that `studentId` has an enrollment in.
EnrolledCourses(db, studentId) ==
    {db.courses[c] : c \in {n \in DOMAIN db.courses :
        \E i \in DOMAIN db.enrollments :
           /\ db.enrollments[i].studentId = studentId
           /\ db.enrollments[i].courseId = db.courses[n].id}}

\* C17: listMyCoursesByStudentId(id), for every id, and listMyCourses() for
\* the current user, return the courses the student has an enrollment in,
\* each once, in the order of the courses table.
C17_CoursesInTableOrder ==
    /\ \A studentId \in IdsOf(Doc.users) :
          LET r == listMyCoursesByStudentId(storage, studentId)
          IN  /\ r.error = NoError
              /\ IsSelection(r.ret, Doc.courses, EnrolledCourses(Doc, studentId))
    /\ Doc.currentUserId # Null
       => LET r == listMyCourses(storage)
          IN  /\ r.error = NoError
              /\ IsSelection(r.ret, Doc.courses, EnrolledCourses(Doc, Doc.currentUserId))

\* C17 witness: the current user enrolled first in the course that is second
\* in the courses table, and listMyCourses returns the two courses in the
\* order of the table.
C17_Witness ==
    /\ Doc.currentUserId # Null
    /\ Len(Doc.courses) = 2
    /\ \E i, j \in DOMAIN Doc.enrollments :
          /\ i < j
          /\ Doc.enrollments[i].studentId = Doc.currentUserId
          /\ Doc.enrollments[j].studentId = Doc.currentUserId
          /\ Doc.enrollments[i].courseId = Doc.courses[2].id
          /\ Doc.enrollments[j].courseId = Doc.courses[1].id
    /\ listMyCourses(storage).ret = Doc.courses

\* The users of db that have an enrollment in the course with the code
\* `code`, the current user excepted.
OtherStudentsIn(db, code) ==
    {db.users[u] : u \in {n \in DOMAIN db.users :
        /\ db.users[n].id # db.currentUserId
        /\ EnrollmentRows(db, db.users[n].id, code) # {}}}

C19_MutualCourses ==
    Doc.currentUserId # Null
    => \A otherStudentId \in IdsOf(Doc.users) :
          LET r == listMutualCourses(storage, otherStudentId)
          IN  /\ r.error = NoError
              /\ IsSelection(r.ret, Doc.courses,
                             EnrolledCourses(Doc, Doc.currentUserId)
                                \cap EnrolledCourses(Doc, otherStudentId))

\* C19 witness: the other student is enrolled in two courses and the current
\* user in one of them, the only course that listMutualCourses returns.
C19_Witness ==
    /\ Doc.currentUserId # Null
    /\ \E u \in DOMAIN Doc.users :
          /\ Doc.users[u].id # Doc.currentUserId
          /\ Cardinality(EnrolledCourses(Doc, Doc.users[u].id)) = 2
          /\ Cardinality(EnrolledCourses(Doc, Doc.currentUserId)) = 1
          /\ Len(listMutualCourses(storage, Doc.users[u].id).ret) = 1

\* C20: addMeetingTime by a logged-in user returns; the current user's
\* availability is unchanged when it has a slot with the same day, start
\* and end, and has the slot appended otherwise; nothing else changes, and
\* adding the slot again changes nothing.  No user has two slots with the
\* same day, start and end.
C20_AddMeetingTimeIdempotent ==
    /\ Doc.currentUserId # Null
       => \A slot \in WeekSlots :
             LET r == addMeetingTime(storage, slot.day, slot.startTime, slot.endTime)
                 after == load(stored(storage, r))
                 again == addMeetingTime(stored(storage, r), slot.day, slot.startTime,
                                         slot.endTime)
             IN  /\ r.error = NoError
                 /\ \A u \in DOMAIN Doc.users :
                       after.users[u] =
                          IF Doc.users[u].id = Doc.currentUserId
                             /\ \A k \in DOMAIN Doc.users[u].availability :
                                   \/ Doc.users[u].availability[k].day # slot.day
                                   \/ Doc.users[u].availability[k].startTime # slot.startTime
                                   \/ Doc.users[u].availability[k].endTime # slot.endTime
                          THEN [Doc.users[u] EXCEPT !.availability = Append(@, slot)]
                          ELSE Doc.users[u]
                 /\ Len(after.users) = Len(Doc.users)
                 /\ after.currentUserId = Doc.currentUserId
                 /\ load(stored(stored(storage, r), again)) = after
    /\ \A u \in DOMAIN Doc.users : \A i, j \in DOMAIN Doc.users[u].availability :
          (/\ Doc.users[u].availability[i].day = Doc.users[u].availability[j].day
           /\ Doc.users[u].availability[i].startTime = Doc.users[u].availability[j].startTime
           /\ Doc.users[u].availability[i].endTime = Doc.users[u].availability[j].endTime)
          => i = j

\* C20 witness: the current user has the three slots, which differ from one
\* another in one field, and adding one of them again changes nothing.
C20_Witness ==
    /\ Doc.currentUserId # Null
    /\ \E u \in DOMAIN Doc.users :
          /\ Doc.users[u].id = Doc.currentUserId
          /\ Len(Doc.users[u].availability) = 3
    /\ \A slot \in WeekSlots :
          load(stored(storage, addMeetingTime(storage, slot.day, slot.startTime,
                                              slot.endTime))) = Doc

\* The positions of the slots of `availability` that equal `slot` on day,
\* start and end.
SlotRows(availability, slot) ==
    {k \in DOMAIN availability :
        /\ availability[k].day = slot.day
        /\ availability[k].startTime = slot.startTime
        /\ availability[k].endTime = slot.endTime}

\* A slot that nobody adds: a day of its own.
OtherSlot ==
    [day |-> "Friday", startTime |-> <<"1","7",":","0","0">>,
     endTime |-> <<"1","8",":","0","0">>]

\* C21: removeMeetingTime by a logged-in user returns; the current user's
\* availability loses the slot that equals the argument on day, start and
\* end and keeps the others in their order; the other users, and everything
\* when no slot equals the argument on all three, are as before.
C21_RemoveMeetingTime ==
    Doc.currentUserId # Null
    => \A slot \in WeekSlots \cup {OtherSlot} :
          LET r == removeMeetingTime(storage, slot)
              after == load(stored(storage, r))
          IN  /\ r.error = NoError
              /\ Len(after.users) = Len(Doc.users)
              /\ \A u \in DOMAIN Doc.users :
                    LET rows == SlotRows(Doc.users[u].availability, slot)
                    IN  after.users[u] =
                           IF Doc.users[u].id = Doc.currentUserId /\ rows # {}
                           THEN [Doc.users[u] EXCEPT
                                    !.availability = Without(@, CHOOSE k \in rows : TRUE)]
                           ELSE Doc.users[u]
              /\ \A u \in DOMAIN after.users : SlotRows(after.users[u].availability, slot) = {}
                    \/ after.users[u].id # Doc.currentUserId
              /\ after.currentUserId = Doc.currentUserId
              /\ after.courses = Doc.courses
              /\ after.enrollments = Doc.enrollments
              /\ after.studySessions = Doc.studySessions

\* C21 witness: the current user and the other student have the three slots;
\* removing the current user's second slot leaves the first and the third,
\* and removing a slot nobody has leaves the document as it was.
C21_Witness ==
    /\ Len(Doc.users) = 2
    /\ Doc.currentUserId = Doc.users[1].id
    /\ Len(Doc.users[1].availability) = 3
    /\ Len(Doc.users[2].availability) = 3
    /\ LET mine == Doc.users[1].availability
           after == load(stored(storage, removeMeetingTime(storage, mine[2])))
       IN  /\ after.users[1].availability = <<mine[1], mine[3]>>
           /\ after.users[2] = Doc.users[2]
    /\ load(stored(storage, removeMeetingTime(storage, OtherSlot))) = Doc

\* C22: createStudySessionRequest by a logged-in user with the user's own id
\* as requestee throws 'You cannot send a study request to yourself.' and
\* stores nothing; and no stored session has its requester for requestee.
C22_NoSelfRequest ==
    /\ Doc.currentUserId # Null
       => \A courseId \in IdsOf(Doc.courses), time \in Times :
             LET r == createStudySessionRequest(storage, Doc.currentUserId, courseId, time)
             IN  /\ r.error = "You cannot send a study request to yourself."
                 /\ stored(storage, r) = storage
    /\ \A i \in DOMAIN Doc.studySessions :
          Doc.studySessions[i].requesterId # Doc.studySessions[i].requesteeId

\* C22 witness: two sessions are stored, the current user has sent one and
\* received one, and a request to oneself throws.
C22_Witness ==
    /\ Len(Doc.studySessions) = 2
    /\ Doc.studySessions[1].requesterId = Doc.currentUserId
    /\ Doc.studySessions[2].requesteeId = Doc.currentUserId
    /\ createStudySessionRequest(storage, Doc.currentUserId, NoSuchId, 1000).error
          = "You cannot send a study request to yourself."

Kth(S, k) == CHOOSE i \in S : Cardinality({j \in S : j < i}) = k - 1

\* The id, name and handle of a user.
Summary(user) == [id |-> user.id, name |-> user.name, username |-> user.username]

\* The summaries of the users of db with the ids `first` and `second`, in
\* that order, those that are in the users table.
Summaries(db, first, second) ==
    LET found(id) == {u \in DOMAIN db.users : db.users[u].id = id}
        one(id) == IF found(id) = {} THEN <<>>
                   ELSE <<Summary(db.users[CHOOSE u \in found(id) : TRUE])>>
    IN  one(first) \o one(second)

\* The code of the course of db with the id `courseId`, or 'Unknown Course'.
CodeOrSentinel(db, courseId) ==
    IF \E c \in DOMAIN db.courses : db.courses[c].id = courseId
    THEN db.courses[CHOOSE c \in DOMAIN db.courses : db.courses[c].id = courseId].code
    ELSE <<"U","n","k","n","o","w","n"," ","C","o","u","r","s","e">>

\* `list` has one entry for each of the sessions of db at the positions
\* `wanted`, in their order, with the session's id, its course's code or the
\* sentinel, and the summaries of its requester and requestee.
ListsSessions(list, db, wanted) ==
    /\ Len(list) = Cardinality(wanted)
    /\ \A k \in DOMAIN list :
          LET session == db.studySessions[Kth(wanted, k)]
          IN  /\ list[k].id = session.id
              /\ list[k].courseCode = CodeOrSentinel(db, session.courseId)
              /\ list[k].participants =
                    Summaries(db, session.requesterId, session.requesteeId)

\* C24: listPendingRequestsForMe by a logged-in user returns one entry for
\* each pending session whose requestee is the current user, and for no
\* other session, in the order of studySessions, each with the course's code
\* or 'Unknown Course' and the summaries of the requester and the requestee.
C24_PendingRequests ==
    Doc.currentUserId # Null
    => LET r == listPendingRequestsForMe(storage)
       IN  /\ r.error = NoError
           /\ ListsSessions(r.ret, Doc,
                 {i \in DOMAIN Doc.studySessions :
                     /\ Doc.studySessions[i].requesteeId = Doc.currentUserId
                     /\ Doc.studySessions[i].status = "pending"})

\* C24 witness: the current user has two pending requests, the first for a
\* course the store does not know; the list has both, in that order.
C24_Witness ==
    /\ Len(Doc.studySessions) = 2
    /\ Len(Doc.courses) = 1
    /\ LET r == listPendingRequestsForMe(storage)
       IN  /\ r.error = NoError
           /\ Len(r.ret) = 2
           /\ r.ret[1].id = Doc.studySessions[1].id
           /\ r.ret[1].courseCode = <<"U","n","k","n","o","w","n"," ","C","o","u","r","s","e">>
           /\ r.ret[2].courseCode = <<"C","S","1">>
           /\ Len(r.ret[2].participants) = 2

\* C26: updateStudySessionStatus by a logged-in user with an id that no
\* stored session has throws 'Study session not found.' and stores nothing.
C26_UnknownSession ==
    Doc.currentUserId # Null
    => \A sessionId \in {NoSuchId, uuid("session", Doc.studySessions), Null},
          newStatus \in StudySessionStatus :
          LET r == updateStudySessionStatus(storage, sessionId, newStatus)
          IN  /\ r.error = "Study session not found."
              /\ stored(storage, r) = storage

\* C26 witness: the current user is the requestee of a pending session, and
\* an update of another id throws.
C26_Witness ==
    /\ \E i \in DOMAIN Doc.studySessions :
          /\ Doc.studySessions[i].requesteeId = Doc.currentUserId
          /\ Doc.studySessions[i].status = "pending"
    /\ updateStudySessionStatus(storage, NoSuchId, "confirmed").error
          = "Study session not found."

\* C25: listMyStudySessions returns one entry for each confirmed session
\* whose requester or requestee is the current user, and for no other
\* session, in the order of studySessions; nothing when nobody is logged in.
C25_ConfirmedSessions ==
    LET r == listMyStudySessions(storage)
    IN  /\ r.error = NoError
        /\ ListsSessions(r.ret, Doc,
              {i \in DOMAIN Doc.studySessions :
                  /\ Doc.currentUserId # Null
                  /\ Doc.studySessions[i].status = "confirmed"
                  /\ \/ Doc.studySessions[i].requesterId = Doc.currentUserId
                     \/ Doc.studySessions[i].requesteeId = Doc.currentUserId})

\* C25 witness: two sessions are confirmed, the first between the two other
\* students and the second sent by the current user; the list has the
\* second only.
C25_Witness ==
    /\ Len(Doc.studySessions) = 2
    /\ Doc.currentUserId # Null
    /\ Doc.studySessions[1].status = "confirmed"
    /\ Doc.studySessions[2].status = "confirmed"
    /\ Doc.currentUserId \notin {Doc.studySessions[1].requesterId,
                                 Doc.studySessions[1].requesteeId}
    /\ Doc.currentUserId = Doc.studySessions[2].requesterId
    /\ LET r == listMyStudySessions(storage)
       IN  Len(r.ret) = 1 /\ r.ret[1].id = Doc.studySessions[2].id

\* The times of day of the slots, as numbers of the form HHMM.
ClockTimes ==
    {[text |-> <<"0","9",":","0","0">>, hhmm |-> 900], [text |-> <<"0","9",":","3","0">>, hhmm |-> 930],
     [text |-> <<"0","9",":","4","5">>, hhmm |-> 945], [text |-> <<"1","0",":","0","0">>, hhmm |-> 1000],
     [text |-> <<"1","0",":","3","0">>, hhmm |-> 1030], [text |-> <<"1","1",":","0","0">>, hhmm |-> 1100],
     [text |-> <<"1","2",":","0","0">>, hhmm |-> 1200], [text |-> <<"1","3",":","0","0">>, hhmm |-> 1300],
     [text |-> <<"1","4",":","0","0">>, hhmm |-> 1400]}

Clock(text) == (CHOOSE c \in ClockTimes : c.text = text).hhmm

\* Two slots of the same day, the later start being before the earlier end.
Overlapping(a, b) ==
    /\ a.day = b.day
    /\ \A start \in {Clock(a.startTime), Clock(b.startTime)},
          end \in {Clock(a.endTime), Clock(b.endTime)} : start < end

\* The users of db other than the current user who share a course with the
\* current user and have a slot overlapping one of the current user's.
Candidates(db) ==
    {db.users[n] : n \in {u \in DOMAIN db.users :
        /\ db.users[u].id # db.currentUserId
        /\ EnrolledCourses(db, db.users[u].id) \cap EnrolledCourses(db, db.currentUserId) # {}
        /\ \E m \in DOMAIN db.users :
              /\ db.users[m].id = db.currentUserId
              /\ \E i \in DOMAIN db.users[m].availability,
                    j \in DOMAIN db.users[u].availability :
                    Overlapping(db.users[m].availability[i], db.users[u].availability[j])}}

\* C27: suggestStudyBuddies by a logged-in user returns the users other than
\* the current user who are enrolled in a course the current user is
\* enrolled in and have a slot that overlaps one of the current user's, and
\* no other user, each once, in the order of the users table.
C27_SuggestBuddies ==
    Doc.currentUserId # Null
    => LET r == suggestStudyBuddies(storage)
       IN  /\ r.error = NoError
           /\ IsSelection(r.ret, Doc.users, Candidates(Doc))
           /\ \A k \in DOMAIN r.ret : r.ret[k].id # Doc.currentUserId

\* C27 witness: the student registered second is logged in; the first and
\* the third are suggested, in that order, although the third enrolled and
\* added the slots last; and for the student registered first, who shares a
\* course but no overlapping slot with the second, the second is not
\* suggested.
C27_Witness ==
    /\ Doc.currentUserId = Doc.users[2].id
    /\ suggestStudyBuddies(storage).ret = <<Doc.users[1], Doc.users[3]>>
    /\ Doc.users[1].availability = <<MorningSlot>>
    /\ Doc.users[2].availability = <<NoonSlot, MorningSlot>>
    /\ Doc.users[3].availability = <<NoonSlot>>
    /\ EnrolledCourses(Doc, Doc.users[1].id) \cap EnrolledCourses(Doc, Doc.users[3].id) # {}
    /\ LET asFirst == stored(storage, login(storage, Doc.users[1].username))
       IN  suggestStudyBuddies(asFirst).ret = <<Doc.users[2]>>

\* C28: the overlap test of suggestStudyBuddies holds of two slots exactly
\* when they are of the same day and the later start is before the earlier
\* end, the times compared as the numbers HHMM; a student who shares a
\* course with the current user and has one slot is suggested exactly when
\* it overlaps the current user's one slot.  09:00-10:00 and 10:00-11:00 do
\* not overlap, 09:00-10:30 and 10:00-11:00 do, slots of two days never.
C28_StrictOverlap ==
    /\ \A a, b \in ClockSlots : slotsOverlap(a, b) <=> Overlapping(a, b)
    /\ \A day \in {"Monday", "Tuesday"} :
          /\ ~slotsOverlap(
                [day |-> day, startTime |-> <<"0","9",":","0","0">>, endTime |-> <<"1","0",":","0","0">>],
                [day |-> day, startTime |-> <<"1","0",":","0","0">>, endTime |-> <<"1","1",":","0","0">>])
          /\ slotsOverlap(
                [day |-> day, startTime |-> <<"0","9",":","0","0">>, endTime |-> <<"1","0",":","3","0">>],
                [day |-> day, startTime |-> <<"1","0",":","0","0">>, endTime |-> <<"1","1",":","0","0">>])
    /\ \A a, b \in ClockSlots : a.day # b.day => ~slotsOverlap(a, b)
    /\ Doc.currentUserId # Null
       => \A m, u \in DOMAIN Doc.users :
             (/\ Doc.users[m].id = Doc.currentUserId
              /\ u # m
              /\ Len(Doc.users[m].availability) = 1
              /\ Len(Doc.users[u].availability) = 1)
             => LET suggested == suggestStudyBuddies(storage).ret
                IN  (\E k \in DOMAIN suggested : suggested[k] = Doc.users[u])
                    <=> Overlapping(Doc.users[m].availability[1],
                                    Doc.users[u].availability[1])

\* C28 witness: the current user has Monday 09:00-10:00, the student who
\* shares the course has Monday 10:00-11:00, and nobody is suggested.
C28_Witness ==
    /\ Doc.currentUserId = Doc.users[1].id
    /\ Doc.users[1].availability =
          <<[day |-> "Monday", startTime |-> <<"0","9",":","0","0">>, endTime |-> <<"1","0",":","0","0">>]>>
    /\ Doc.users[2].availability =
          <<[day |-> "Monday", startTime |-> <<"1","0",":","0","0">>, endTime |-> <<"1","1",":","0","0">>]>>
    /\ EnrolledCourses(Doc, Doc.users[1].id) \cap EnrolledCourses(Doc, Doc.users[2].id) # {}
    /\ suggestStudyBuddies(storage).ret = <<>>

\* The store holding the empty document.
EmptyStore == save(EmptyTables)

\* C29: when the key is absent or its text does not parse, load() returns
\* the empty tables, and every operation that reads returns or throws what
\* it does on the empty document.
C29_LoadNeverRaises ==
    storage.kind # "json"
    => /\ load(storage) = EmptyTables
       /\ dump(storage) = dump(EmptyStore)
       /\ me(storage) = me(EmptyStore)
       /\ me(storage).ret = <<>>
       /\ \A username \in ProbeUsernames :
             getUserByUsername(storage, username) = getUserByUsername(EmptyStore, username)
       /\ listMyCourses(storage) = listMyCourses(EmptyStore)
       /\ \A id \in IdsOf(storage.doc.users) :
             /\ listMyCoursesByStudentId(storage, id) = listMyCoursesByStudentId(EmptyStore, id)
             /\ listMutualCourses(storage, id) = listMutualCourses(EmptyStore, id)
       /\ \A code \in CourseCodes :
             /\ classmates(storage, code) = classmates(EmptyStore, code)
             /\ classmates(storage, code).ret = <<>>
             /\ getCourseByCode(storage, code) = getCourseByCode(EmptyStore, code)
       /\ listPendingRequestsForMe(storage) = listPendingRequestsForMe(EmptyStore)
       /\ listMyStudySessions(storage) = listMyStudySessions(EmptyStore)
       /\ suggestStudyBuddies(storage) = suggestStudyBuddies(EmptyStore)

\* C29 witness: the key holds a text that does not parse, cut from a document
\* with users, courses, enrollments and a session, and dump() returns the
\* empty tables.
C29_Witness ==
    /\ storage.kind = "corrupt"
    /\ Len(storage.doc.users) = 2
    /\ Len(storage.doc.courses) = 2
    /\ Len(storage.doc.enrollments) = 4
    /\ dump(storage).ret = EmptyTables

\* The table `name` of the stored document, or `default` when it has none.
StoredTable(name, default) ==
    IF name \in DOMAIN storage.doc THEN storage.doc[name] ELSE default

\* C30: of a stored document load() returns the enrollments whose courseId
\* is the id of a stored course, in their order, and users, courses,
\* studySessions and currentUserId as they are stored (empty, and nobody,
\* when the document has none).
C30_LoadPrunesOrphans ==
    storage.kind = "json"
    => LET rows == StoredTable("enrollments", <<>>)
           courses == StoredTable("courses", <<>>)
           kept == {i \in DOMAIN rows :
                       \E c \in DOMAIN courses : courses[c].id = rows[i].courseId}
           db == load(storage)
       IN  /\ Len(db.enrollments) = Cardinality(kept)
           /\ \A k \in DOMAIN db.enrollments : db.enrollments[k] = rows[Kth(kept, k)]
           /\ db.users = StoredTable("users", <<>>)
           /\ db.courses = courses
           /\ db.studySessions = StoredTable("studySessions", <<>>)
           /\ db.currentUserId = StoredTable("currentUserId", Null)
           /\ dump(storage).ret = db

\* C30 witness: the stored document has four enrollments and lacks the
\* course of the first and the third; load() returns the second and the
\* fourth, and the stored session.
C30_Witness ==
    /\ storage.kind = "json"
    /\ DOMAIN storage.doc = DOMAIN EmptyTables
    /\ Len(storage.doc.enrollments) = 4
    /\ Len(storage.doc.courses) = 1
    /\ Len(storage.doc.studySessions) = 1
    /\ load(storage).enrollments = <<storage.doc.enrollments[2], storage.doc.enrollments[4]>>
    /\ load(storage).studySessions = storage.doc.studySessions

\* A stored blob is a clean document of the present version: it parses, has
\* the five tables, and every enrollment's course is in it.
CleanDocument(st) ==
    /\ st.kind = "json"
    /\ DOMAIN st.doc = DOMAIN EmptyTables
    /\ \A i \in DOMAIN st.doc.enrollments :
           \E c \in DOMAIN st.doc.courses : st.doc.courses[c].id = st.doc.enrollments[i].courseId

\* C31: save(load()) is a fixed point.  Whatever the key holds, the document
\* load() gives after save(load()) is the document load() gave before it;
\* and when the key holds a clean document, save(load()) writes that very
\* document back.
C31_SaveLoadFixedPoint ==
    \A loaded \in {load(storage)} :
        /\ load(save(loaded)) = loaded
        /\ CleanDocument(storage) => save(loaded) = storage


\* A clean document in which a request was stored whose time was NaN and
\* was written as null: save(load()) writes back the blob that is stored.
C31_Witness ==
    /\ CleanDocument(storage)
    /\ storage.doc.enrollments # <<>>
    /\ \E i \in DOMAIN storage.doc.studySessions :
           storage.doc.studySessions[i].time = NullNumber
    /\ save(load(storage)) = storage

\* A call that returned passed the document to save() exactly once.
SavedOnce(r) == r.error = NoError => Len(r.saves) = 1

\* C32: every mutating operation saves the whole document exactly once per
\* call, after its mutations.  Stated of the calls that return: a call that
\* throws is no completed operation and must write nothing.
C32_SavesExactlyOnce ==
    /\ \A name \in Names, username \in Usernames :
          SavedOnce(createUser(storage, name, username))
    /\ \A username \in LoginNames : SavedOnce(login(storage, username))
    /\ SavedOnce(logout(storage))
    /\ \A code \in Codes :
          /\ SavedOnce(getOrCreateCourse(storage, code))
          /\ SavedOnce(addEnrollment(storage, code))
          /\ SavedOnce(removeEnrollment(storage, code))
    /\ \A slot \in Slots :
          /\ SavedOnce(addMeetingTime(storage, slot.day, slot.startTime, slot.endTime))
          /\ SavedOnce(removeMeetingTime(storage, slot))
    /\ \A requesteeId \in IdsOf(Doc.users), courseId \in IdsOf(Doc.courses), time \in Times :
          SavedOnce(createStudySessionRequest(storage, requesteeId, courseId, time))
    /\ \A sessionId \in IdsOf(Doc.studySessions), newStatus \in StudySessionStatus :
          SavedOnce(updateStudySessionStatus(storage, sessionId, newStatus))

\* The identifiers of the users in the users table of `db`.
UserIds(db) == {db.users[i].id : i \in DOMAIN db.users}

\* C33: in every document reached from the empty one, the requester and the
\* requestee of every study session are users of the users table, whatever
\* requesteeId createStudySessionRequest was given.
C33_ParticipantsAreUsers ==
    \A i \in DOMAIN Doc.studySessions :
        /\ Doc.studySessions[i].requesterId \in UserIds(Doc)
        /\ Doc.studySessions[i].requesteeId \in UserIds(Doc)

\* The rows of users, courses and studySessions that load() gave before a
\* call are, in the same places, rows of the document load() gives after it:
\* the same user, the same course, the same session but for its status.
KeepsRows(r) ==
    \A after \in {load(stored(storage, r))} :
        /\ \A i \in DOMAIN Doc.users :
              /\ i \in DOMAIN after.users
              /\ after.users[i].id = Doc.users[i].id
              /\ after.users[i].username = Doc.users[i].username
              /\ after.users[i].name = Doc.users[i].name
        /\ \A i \in DOMAIN Doc.courses :
              i \in DOMAIN after.courses /\ after.courses[i] = Doc.courses[i]
        /\ \A i \in DOMAIN Doc.studySessions :
              /\ i \in DOMAIN after.studySessions
              /\ after.studySessions[i] =
                    [Doc.studySessions[i] EXCEPT !.status = after.studySessions[i].status]

\* C34: no operation but reset removes or reorders a user, a course or a
\* study session, or changes a stored session's id, courseId, requesterId,
\* requesteeId or time; a course nobody is enrolled in any more stays.
C34_RowsStay ==
    /\ KeepsRows(dump(storage)) /\ KeepsRows(me(storage)) /\ KeepsRows(logout(storage))
    /\ \A name \in Names, username \in Usernames :
          KeepsRows(createUser(storage, name, username))
    /\ \A username \in LoginNames :
          KeepsRows(login(storage, username)) /\ KeepsRows(getUserByUsername(storage, username))
    /\ \A code \in Codes \cup CourseCodes :
          /\ KeepsRows(getOrCreateCourse(storage, code))
          /\ KeepsRows(addEnrollment(storage, code))
          /\ KeepsRows(removeEnrollment(storage, code))
          /\ KeepsRows(classmates(storage, code))
          /\ KeepsRows(getCourseByCode(storage, code))
    /\ \A slot \in Slots \cup {NoonSlot} :
          /\ KeepsRows(addMeetingTime(storage, slot.day, slot.startTime, slot.endTime))
          /\ KeepsRows(removeMeetingTime(storage, slot))
    /\ \A requesteeId \in IdsOf(Doc.users), courseId \in IdsOf(Doc.courses), time \in Times :
          KeepsRows(createStudySessionRequest(storage, requesteeId, courseId, time))
    /\ \A sessionId \in IdsOf(Doc.studySessions), newStatus \in StudySessionStatus :
          KeepsRows(updateStudySessionStatus(storage, sessionId, newStatus))
    /\ \A studentId \in IdsOf(Doc.users) :
          /\ KeepsRows(listMyCoursesByStudentId(storage, studentId))
          /\ KeepsRows(listMutualCourses(storage, studentId))
    /\ KeepsRows(listMyCourses(storage))
    /\ KeepsRows(listPendingRequestsForMe(storage))
    /\ KeepsRows(listMyStudySessions(storage))
    /\ KeepsRows(suggestStudyBuddies(storage))

\* One enrollment is left, the current user's, in the first of the two
\* courses, for which a session is stored; unenrolling saves a document with
\* no enrollment and both courses still in their table.
C34_Witness ==
    /\ Len(Doc.enrollments) = 1
    /\ Len(Doc.courses) = 2
    /\ Doc.enrollments[1].courseId = Doc.courses[1].id
    /\ \E i \in DOMAIN Doc.studySessions : Doc.studySessions[i].courseId = Doc.courses[1].id
    /\ \E code \in CourseCodes :
          \A r \in {removeEnrollment(storage, code)} :
              /\ Len(r.saves) = 1
              /\ r.saves[1].enrollments = <<>>
              /\ r.saves[1].courses = Doc.courses

\* C35: in every document reached from the empty one, currentUserId is null
\* or the id of a user of the users table, every enrollment's studentId is
\* the id of such a user, and me() returns a user whenever a current user is
\* set.
C35_CurrentUserIsUser ==
    /\ Doc.currentUserId = Null \/ Doc.currentUserId \in UserIds(Doc)
    /\ \A i \in DOMAIN Doc.enrollments : Doc.enrollments[i].studentId \in UserIds(Doc)
    /\ Doc.currentUserId # Null =>
          /\ Len(me(storage).ret) = 1
          /\ me(storage).ret[1].id = Doc.currentUserId

\* Two users are stored, the one who is not current is enrolled, and the
\* current one is the first of the table.
C35_Witness ==
    /\ Len(Doc.users) = 2
    /\ Doc.currentUserId = Doc.users[1].id
    /\ me(storage).ret = <<Doc.users[1]>>
    /\ \E i \in DOMAIN Doc.enrollments : Doc.enrollments[i].studentId = Doc.users[2].id

\* C36: in every document reached from the empty one, the requester and the
\* requestee of every confirmed or declined session are users of the users
\* table, and every entry listMyStudySessions returns has two participants:
\* the session's requester, then its requestee.
C36_AnsweredSessionsHaveBoth ==
    /\ \A i \in DOMAIN Doc.studySessions :
          Doc.studySessions[i].status \in {"confirmed", "declined"} =>
              /\ Doc.studySessions[i].requesterId \in UserIds(Doc)
              /\ Doc.studySessions[i].requesteeId \in UserIds(Doc)
    /\ \A list \in {listMyStudySessions(storage).ret} :
          \A k \in DOMAIN list :
              /\ Len(list[k].participants) = 2
              /\ \E i \in DOMAIN Doc.studySessions :
                    /\ Doc.studySessions[i].id = list[k].id
                    /\ list[k].participants[1].id = Doc.studySessions[i].requesterId
                    /\ list[k].participants[2].id = Doc.studySessions[i].requesteeId

\* A pending request to an identifier that is nobody's is stored beside a
\* confirmed session, which listMyStudySessions returns to its requester.
C36_Witness ==
    /\ \E i \in DOMAIN Doc.studySessions :
          /\ Doc.studySessions[i].status = "pending"
          /\ Doc.studySessions[i].requesteeId \notin UserIds(Doc)
    /\ \E i \in DOMAIN Doc.studySessions :
          /\ Doc.studySessions[i].status = "confirmed"
          /\ Doc.studySessions[i].requesterId = Doc.currentUserId
    /\ Len(listMyStudySessions(storage).ret) = 1

\* A call left the stored blob as it was.
WroteNothing(r) == r.saves = <<>> /\ stored(storage, r) = storage

\* C37: the read operations never write.  Whatever the key holds, and also
\* when load() prunes enrollments from what they read or is called several
\* times, the blob is the same after the call as before it.
C37_ReadsNeverWrite ==
    /\ WroteNothing(dump(storage))
    /\ WroteNothing(me(storage))
    /\ \A username \in LoginNames : WroteNothing(getUserByUsername(storage, username))
    /\ WroteNothing(listMyCourses(storage))
    /\ \A studentId \in IdsOf(Doc.users) :
          /\ WroteNothing(listMyCoursesByStudentId(storage, studentId))
          /\ WroteNothing(listMutualCourses(storage, studentId))
    /\ \A code \in CourseCodes :
          /\ WroteNothing(classmates(storage, code))
          /\ WroteNothing(getCourseByCode(storage, code))
    /\ WroteNothing(listPendingRequestsForMe(storage))
    /\ WroteNothing(listMyStudySessions(storage))
    /\ WroteNothing(suggestStudyBuddies(storage))

\* The stored document has enrollments that load() prunes, a student is
\* logged in, and a read that loads more than once returns something: a
\* mutual course with the other student, who is a classmate.
C37_Witness ==
    /\ storage.kind = "json"
    /\ "enrollments" \in DOMAIN storage.doc
    /\ Len(Doc.enrollments) < Len(storage.doc.enrollments)
    /\ Doc.currentUserId # Null
    /\ dump(storage).ret # storage.doc
    /\ \E studentId \in IdsOf(Doc.users) : listMutualCourses(storage, studentId).ret # <<>>
    /\ \E code \in CourseCodes : classmates(storage, code).ret # <<>>

\* `user` is one of those suggestStudyBuddies returns when the user named
\* `username` has logged in.
SuggestedTo(username, user) ==
    \A list \in {suggestStudyBuddies(AfterLogin(storage, username)).ret} :
        \E k \in DOMAIN list : list[k].id = user.id

\* C38: suggestion is symmetric.  For any two users A and B of the document,
\* B is suggested when A is the current user exactly when A is suggested
\* when B is the current user.
C38_SuggestionSymmetric ==
    \A a, b \in DOMAIN Doc.users :
        SuggestedTo(Doc.users[a].username, Doc.users[b])
        <=> SuggestedTo(Doc.users[b].username, Doc.users[a])

\* The first student has Monday 09:00-10:30, the second Monday 10:00-11:00,
\* which starts within it; each is suggested to the other and the third
\* student to neither.
C38_Witness ==
    /\ Doc.users[1].availability =
          <<[day |-> "Monday", startTime |-> <<"0","9",":","0","0">>,
             endTime |-> <<"1","0",":","3","0">>]>>
    /\ Doc.users[2].availability =
          <<[day |-> "Monday", startTime |-> <<"1","0",":","0","0">>,
             endTime |-> <<"1","1",":","0","0">>]>>
    /\ SuggestedTo(Doc.users[1].username, Doc.users[2])
    /\ SuggestedTo(Doc.users[2].username, Doc.users[1])
    /\ ~SuggestedTo(Doc.users[1].username, Doc.users[3])
    /\ ~SuggestedTo(Doc.users[3].username, Doc.users[1])
    /\ Doc.currentUserId = Doc.users[2].id

\* A slot whose start is not before its end.
EndsBeforeStart(slot) == Clock(slot.startTime) >= Clock(slot.endTime)

\* C39: a slot whose start is not before its end overlaps no slot of any
\* user, so such a slot never causes a suggestion: the overlap test fails
\* for it on either side, and whoever is suggested to the current user has
\* a slot that starts before it ends and overlaps such a slot of the
\* current user.
C39_BackwardSlotsNeverOverlap ==
    /\ \A a \in GivenSlots, b \in GivenSlots \cup ClockSlots :
          EndsBeforeStart(a) => ~slotsOverlap(a, b) /\ ~slotsOverlap(b, a)
    /\ Doc.currentUserId # Null
       => \A list \in {suggestStudyBuddies(storage).ret} :
             \A k \in DOMAIN list :
                 \E m \in DOMAIN Doc.users :
                     /\ Doc.users[m].id = Doc.currentUserId
                     /\ \E i \in DOMAIN Doc.users[m].availability,
                           j \in DOMAIN list[k].availability :
                           /\ ~EndsBeforeStart(Doc.users[m].availability[i])
                           /\ ~EndsBeforeStart(list[k].availability[j])
                           /\ Overlapping(Doc.users[m].availability[i],
                                          list[k].availability[j])

\* The current user has 09:00-11:00; the student who shares the course has
\* stored 10:30-10:00 and 10:00-10:00, both within it; nobody is suggested
\* to either.
C39_Witness ==
    /\ Doc.currentUserId = Doc.users[2].id
    /\ Doc.users[2].availability =
          <<[day |-> "Monday", startTime |-> <<"0","9",":","0","0">>,
             endTime |-> <<"1","1",":","0","0">>]>>
    /\ Len(Doc.users[1].availability) = 2
    /\ \A i \in DOMAIN Doc.users[1].availability :
          EndsBeforeStart(Doc.users[1].availability[i])
    /\ EnrolledCourses(Doc, Doc.users[1].id) = EnrolledCourses(Doc, Doc.users[2].id)
    /\ EnrolledCourses(Doc, Doc.users[1].id) # {}
    /\ suggestStudyBuddies(storage).ret = <<>>
    /\ suggestStudyBuddies(AfterLogin(storage, Doc.users[1].username)).ret = <<>>

\* After a call the document differs from the one before it at most in the
\* availability of the current user.
OnlyMyAvailability(r) ==
    \A after \in {load(stored(storage, r))} :
        /\ DOMAIN after.users = DOMAIN Doc.users
        /\ \A u \in DOMAIN Doc.users :
              after.users[u] =
                 IF Doc.users[u].id = Doc.currentUserId
                 THEN [Doc.users[u] EXCEPT !.availability = after.users[u].availability]
                 ELSE Doc.users[u]
        /\ after.courses = Doc.courses
        /\ after.enrollments = Doc.enrollments
        /\ after.studySessions = Doc.studySessions
        /\ after.currentUserId = Doc.currentUserId

\* C40: addMeetingTime and removeMeetingTime change only the availability
\* of the current user: the other users, the current user's other fields,
\* the courses, the enrollments, the study sessions and currentUserId are
\* after the call what they were before it.
C40_OnlyMyAvailability ==
    \A slot \in Slots \cup WeekSlots \cup {NoonSlot} :
        /\ OnlyMyAvailability(addMeetingTime(storage, slot.day, slot.startTime, slot.endTime))
        /\ OnlyMyAvailability(removeMeetingTime(storage, slot))

\* The second of two students is logged in, both have a slot, an enrollment
\* and a session are stored; adding a slot and removing the stored one both
\* change the second student's availability.
C40_Witness ==
    /\ Len(Doc.users) = 2
    /\ Doc.currentUserId = Doc.users[2].id
    /\ Doc.users[1].availability # <<>>
    /\ Doc.enrollments # <<>>
    /\ Doc.studySessions # <<>>
    /\ \E slot \in WeekSlots :
          load(stored(storage, addMeetingTime(storage, slot.day, slot.startTime,
                                              slot.endTime))).users[2].availability
             = Append(Doc.users[2].availability, slot)
    /\ \E slot \in Slots :
          /\ Doc.users[2].availability = <<slot>>
          /\ load(stored(storage, removeMeetingTime(storage, slot))).users[2].availability = <<>>

====
